---- MODULE Spec2Model ----
(***************************************************************************)
(* A model of the timezone_converter crate (src/src/lib.rs): the           *)
(* TimeZoneConverter facade over chrono / chrono_tz, the system clock it   *)
(* reads, and callers that share one converter.                            *)
(*                                                                         *)
(* Instants are UTC: seconds since the Unix epoch plus nanoseconds within  *)
(* the second.  A DateTime<Tz> is, as in chrono, the UTC datetime together *)
(* with the zone's offset record at that instant; the local reading is     *)
(* derived from the two.  The timezone database is an excerpt of the IANA  *)
(* database (release 2023c): the zones listed in TzVariants, each with     *)
(* every transition whose second fits a signed 32-bit integer (1901-12-13  *)
(* to 2038-01-19), the range of integers TLC evaluates.                    *)
(***************************************************************************)
EXTENDS Integers, Naturals, Sequences, FiniteSets, TLC

VARIABLES
    conv,       \* the shared converter: None, or Some([source_tz, target_tz])
    newRes,     \* the last call of new: None, or Some([source, target, ret])
    now,        \* the system clock (what SystemTime::now() returns)
    call,       \* per caller: the call in progress or the last one completed
    pair,       \* two-converter program: its converters, inputs and results
    ppc         \* two-converter program: its position

vars == <<conv, newRes, now, call, pair, ppc>>

(***************************************************************************)
(* Bounds of the model.                                                    *)
(***************************************************************************)
NumCallers == 2      \* callers sharing the converter
MaxTick == 4         \* how many readings of ClockReadings the clock takes
MaxSharedTick == 3   \* the same, while several callers share the converter

(***************************************************************************)
(* Option and Result values.                                               *)
(***************************************************************************)
None == <<>>
Some(x) == <<x>>
IsSome(o) == o # <<>>
Unwrap(o) == o[1]

Ok(v) == [ok |-> TRUE, val |-> v]
Err(e) == [ok |-> FALSE, val |-> e]

\* The three variants of enum Errors, each carrying a string.
InvalidTimeZone(s) == [kind |-> "InvalidTimeZone", msg |-> s]
ParseError(s) == [kind |-> "ParseError", msg |-> s]
ConversionError(s) == [kind |-> "ConversionError", msg |-> s]

(***************************************************************************)
(* The timezone database (chrono_tz::Tz).                                  *)
(***************************************************************************)
TzVariants ==
    {"America__New_York",
     "America__Los_Angeles",
     "America__Sao_Paulo",
     "Europe__London",
     "Europe__Paris",
     "Africa__Kampala",
     "Asia__Kolkata",
     "Asia__Kathmandu",
     "Australia__Sydney",
     "UTC"}

\* Tz::name(): the IANA identifier of a variant.
name(tz) ==
    CASE tz = "America__New_York" -> "America/New_York"
      [] tz = "America__Los_Angeles" -> "America/Los_Angeles"
      [] tz = "America__Sao_Paulo" -> "America/Sao_Paulo"
      [] tz = "Europe__London" -> "Europe/London"
      [] tz = "Europe__Paris" -> "Europe/Paris"
      [] tz = "Africa__Kampala" -> "Africa/Kampala"
      [] tz = "Asia__Kolkata" -> "Asia/Kolkata"
      [] tz = "Asia__Kathmandu" -> "Asia/Kathmandu"
      [] tz = "Australia__Sydney" -> "Australia/Sydney"
      [] tz = "UTC" -> "UTC"

\* Identifiers that are in no release of the database.
NotInDatabase == {"Not/AZone", "Mars/Olympus", ""}

\* <Tz as FromStr>::from_str: an exact match of the identifier.  Defined for
\* the identifiers of the excerpt and for those of NotInDatabase; what the
\* rest of the database holds is not modelled.
from_str(s) ==
    CASE \E tz \in TzVariants : name(tz) = s ->
             Ok(CHOOSE tz \in TzVariants : name(tz) = s)
      [] s \in NotInDatabase -> Err("failed to parse timezone")

\* FixedTimespan: standard offset (the STDOFF of the zone's line in the
\* database), daylight-saving addition (the SAVE of the rule in force, two
\* hours in double summer time) and abbreviation (an Option of a string,
\* here a sequence of characters; None where the database gives only a
\* numeric offset).
FixedTimespan(utc_offset, dst_offset, abbr) ==
    [utc_offset |-> utc_offset, dst_offset |-> dst_offset, name |-> abbr]

\* America/New_York: the span in force at second -2^31 and the transitions after it.
Timespans_America__New_York ==
    [first |-> FixedTimespan(-18000, 0, Some(<<"E", "S", "T">>)),
     rest |-> <<
        <<-1633280400, FixedTimespan(-18000, 3600, Some(<<"E", "D", "T">>))>>,
        <<-1615140000, FixedTimespan(-18000, 0, Some(<<"E", "S", "T">>))>>,
        <<-1601830800, FixedTimespan(-18000, 3600, Some(<<"E", "D", "T">>))>>,
        <<-1583690400, FixedTimespan(-18000, 0, Some(<<"E", "S", "T">>))>>,
        <<-1570381200, FixedTimespan(-18000, 3600, Some(<<"E", "D", "T">>))>>,
        <<-1551636000, FixedTimespan(-18000, 0, Some(<<"E", "S", "T">>))>>,
        <<-1536512400, FixedTimespan(-18000, 3600, Some(<<"E", "D", "T">>))>>,
        <<-1523210400, FixedTimespan(-18000, 0, Some(<<"E", "S", "T">>))>>,
        <<-1504458000, FixedTimespan(-18000, 3600, Some(<<"E", "D", "T">>))>>,
        <<-1491760800, FixedTimespan(-18000, 0, Some(<<"E", "S", "T">>))>>,
        <<-1473008400, FixedTimespan(-18000, 3600, Some(<<"E", "D", "T">>))>>,
        <<-1459706400, FixedTimespan(-18000, 0, Some(<<"E", "S", "T">>))>>,
        <<-1441558800, FixedTimespan(-18000, 3600, Some(<<"E", "D", "T">>))>>,
        <<-1428256800, FixedTimespan(-18000, 0, Some(<<"E", "S", "T">>))>>,
        <<-1410109200, FixedTimespan(-18000, 3600, Some(<<"E", "D", "T">>))>>,
        <<-1396807200, FixedTimespan(-18000, 0, Some(<<"E", "S", "T">>))>>,
        <<-1378659600, FixedTimespan(-18000, 3600, Some(<<"E", "D", "T">>))>>,
        <<-1365357600, FixedTimespan(-18000, 0, Some(<<"E", "S", "T">>))>>,
        <<-1347210000, FixedTimespan(-18000, 3600, Some(<<"E", "D", "T">>))>>,
        <<-1333908000, FixedTimespan(-18000, 0, Some(<<"E", "S", "T">>))>>,
        <<-1315155600, FixedTimespan(-18000, 3600, Some(<<"E", "D", "T">>))>>,
        <<-1301853600, FixedTimespan(-18000, 0, Some(<<"E", "S", "T">>))>>,
        <<-1283706000, FixedTimespan(-18000, 3600, Some(<<"E", "D", "T">>))>>,
        <<-1270404000, FixedTimespan(-18000, 0, Some(<<"E", "S", "T">>))>>,
        <<-1252256400, FixedTimespan(-18000, 3600, Some(<<"E", "D", "T">>))>>,
        <<-1238954400, FixedTimespan(-18000, 0, Some(<<"E", "S", "T">>))>>,
        <<-1220806800, FixedTimespan(-18000, 3600, Some(<<"E", "D", "T">>))>>,
        <<-1207504800, FixedTimespan(-18000, 0, Some(<<"E", "S", "T">>))>>,
        <<-1189357200, FixedTimespan(-18000, 3600, Some(<<"E", "D", "T">>))>>,
        <<-1176055200, FixedTimespan(-18000, 0, Some(<<"E", "S", "T">>))>>,
        <<-1157302800, FixedTimespan(-18000, 3600, Some(<<"E", "D", "T">>))>>,
        <<-1144605600, FixedTimespan(-18000, 0, Some(<<"E", "S", "T">>))>>,
        <<-1125853200, FixedTimespan(-18000, 3600, Some(<<"E", "D", "T">>))>>,
        <<-1112551200, FixedTimespan(-18000, 0, Some(<<"E", "S", "T">>))>>,
        <<-1094403600, FixedTimespan(-18000, 3600, Some(<<"E", "D", "T">>))>>,
        <<-1081101600, FixedTimespan(-18000, 0, Some(<<"E", "S", "T">>))>>,
        <<-1062954000, FixedTimespan(-18000, 3600, Some(<<"E", "D", "T">>))>>,
        <<-1049652000, FixedTimespan(-18000, 0, Some(<<"E", "S", "T">>))>>,
        <<-1031504400, FixedTimespan(-18000, 3600, Some(<<"E", "D", "T">>))>>,
        <<-1018202400, FixedTimespan(-18000, 0, Some(<<"E", "S", "T">>))>>,
        <<-1000054800, FixedTimespan(-18000, 3600, Some(<<"E", "D", "T">>))>>,
        <<-986752800, FixedTimespan(-18000, 0, Some(<<"E", "S", "T">>))>>,
        <<-968000400, FixedTimespan(-18000, 3600, Some(<<"E", "D", "T">>))>>,
        <<-955303200, FixedTimespan(-18000, 0, Some(<<"E", "S", "T">>))>>,
        <<-936550800, FixedTimespan(-18000, 3600, Some(<<"E", "D", "T">>))>>,
        <<-923248800, FixedTimespan(-18000, 0, Some(<<"E", "S", "T">>))>>,
        <<-905101200, FixedTimespan(-18000, 3600, Some(<<"E", "D", "T">>))>>,
        <<-891799200, FixedTimespan(-18000, 0, Some(<<"E", "S", "T">>))>>,
        <<-880218000, FixedTimespan(-18000, 3600, Some(<<"E", "W", "T">>))>>,
        <<-769395600, FixedTimespan(-18000, 3600, Some(<<"E", "P", "T">>))>>,
        <<-765396000, FixedTimespan(-18000, 0, Some(<<"E", "S", "T">>))>>,
        <<-747248400, FixedTimespan(-18000, 3600, Some(<<"E", "D", "T">>))>>,
        <<-733946400, FixedTimespan(-18000, 0, Some(<<"E", "S", "T">>))>>,
        <<-715798800, FixedTimespan(-18000, 3600, Some(<<"E", "D", "T">>))>>,
        <<-702496800, FixedTimespan(-18000, 0, Some(<<"E", "S", "T">>))>>,
        <<-684349200, FixedTimespan(-18000, 3600, Some(<<"E", "D", "T">>))>>,
        <<-671047200, FixedTimespan(-18000, 0, Some(<<"E", "S", "T">>))>>,
        <<-652899600, FixedTimespan(-18000, 3600, Some(<<"E", "D", "T">>))>>,
        <<-639597600, FixedTimespan(-18000, 0, Some(<<"E", "S", "T">>))>>,
        <<-620845200, FixedTimespan(-18000, 3600, Some(<<"E", "D", "T">>))>>,
        <<-608148000, FixedTimespan(-18000, 0, Some(<<"E", "S", "T">>))>>,
        <<-589395600, FixedTimespan(-18000, 3600, Some(<<"E", "D", "T">>))>>,
        <<-576093600, FixedTimespan(-18000, 0, Some(<<"E", "S", "T">>))>>,
        <<-557946000, FixedTimespan(-18000, 3600, Some(<<"E", "D", "T">>))>>,
        <<-544644000, FixedTimespan(-18000, 0, Some(<<"E", "S", "T">>))>>,
        <<-526496400, FixedTimespan(-18000, 3600, Some(<<"E", "D", "T">>))>>,
        <<-513194400, FixedTimespan(-18000, 0, Some(<<"E", "S", "T">>))>>,
        <<-495046800, FixedTimespan(-18000, 3600, Some(<<"E", "D", "T">>))>>,
        <<-481744800, FixedTimespan(-18000, 0, Some(<<"E", "S", "T">>))>>,
        <<-463597200, FixedTimespan(-18000, 3600, Some(<<"E", "D", "T">>))>>,
        <<-447271200, FixedTimespan(-18000, 0, Some(<<"E", "S", "T">>))>>,
        <<-431542800, FixedTimespan(-18000, 3600, Some(<<"E", "D", "T">>))>>,
        <<-415821600, FixedTimespan(-18000, 0, Some(<<"E", "S", "T">>))>>,
        <<-400093200, FixedTimespan(-18000, 3600, Some(<<"E", "D", "T">>))>>,
        <<-384372000, FixedTimespan(-18000, 0, Some(<<"E", "S", "T">>))>>,
        <<-368643600, FixedTimespan(-18000, 3600, Some(<<"E", "D", "T">>))>>,
        <<-352922400, FixedTimespan(-18000, 0, Some(<<"E", "S", "T">>))>>,
        <<-337194000, FixedTimespan(-18000, 3600, Some(<<"E", "D", "T">>))>>,
        <<-321472800, FixedTimespan(-18000, 0, Some(<<"E", "S", "T">>))>>,
        <<-305744400, FixedTimespan(-18000, 3600, Some(<<"E", "D", "T">>))>>,
        <<-289418400, FixedTimespan(-18000, 0, Some(<<"E", "S", "T">>))>>,
        <<-273690000, FixedTimespan(-18000, 3600, Some(<<"E", "D", "T">>))>>,
        <<-257968800, FixedTimespan(-18000, 0, Some(<<"E", "S", "T">>))>>,
        <<-242240400, FixedTimespan(-18000, 3600, Some(<<"E", "D", "T">>))>>,
        <<-226519200, FixedTimespan(-18000, 0, Some(<<"E", "S", "T">>))>>,
        <<-210790800, FixedTimespan(-18000, 3600, Some(<<"E", "D", "T">>))>>,
        <<-195069600, FixedTimespan(-18000, 0, Some(<<"E", "S", "T">>))>>,
        <<-179341200, FixedTimespan(-18000, 3600, Some(<<"E", "D", "T">>))>>,
        <<-163620000, FixedTimespan(-18000, 0, Some(<<"E", "S", "T">>))>>,
        <<-147891600, FixedTimespan(-18000, 3600, Some(<<"E", "D", "T">>))>>,
        <<-131565600, FixedTimespan(-18000, 0, Some(<<"E", "S", "T">>))>>,
        <<-116442000, FixedTimespan(-18000, 3600, Some(<<"E", "D", "T">>))>>,
        <<-100116000, FixedTimespan(-18000, 0, Some(<<"E", "S", "T">>))>>,
        <<-84387600, FixedTimespan(-18000, 3600, Some(<<"E", "D", "T">>))>>,
        <<-68666400, FixedTimespan(-18000, 0, Some(<<"E", "S", "T">>))>>,
        <<-52938000, FixedTimespan(-18000, 3600, Some(<<"E", "D", "T">>))>>,
        <<-37216800, FixedTimespan(-18000, 0, Some(<<"E", "S", "T">>))>>,
        <<-21488400, FixedTimespan(-18000, 3600, Some(<<"E", "D", "T">>))>>,
        <<-5767200, FixedTimespan(-18000, 0, Some(<<"E", "S", "T">>))>>,
        <<9961200, FixedTimespan(-18000, 3600, Some(<<"E", "D", "T">>))>>,
        <<25682400, FixedTimespan(-18000, 0, Some(<<"E", "S", "T">>))>>,
        <<41410800, FixedTimespan(-18000, 3600, Some(<<"E", "D", "T">>))>>,
        <<57736800, FixedTimespan(-18000, 0, Some(<<"E", "S", "T">>))>>,
        <<73465200, FixedTimespan(-18000, 3600, Some(<<"E", "D", "T">>))>>,
        <<89186400, FixedTimespan(-18000, 0, Some(<<"E", "S", "T">>))>>,
        <<104914800, FixedTimespan(-18000, 3600, Some(<<"E", "D", "T">>))>>,
        <<120636000, FixedTimespan(-18000, 0, Some(<<"E", "S", "T">>))>>,
        <<126687600, FixedTimespan(-18000, 3600, Some(<<"E", "D", "T">>))>>,
        <<152085600, FixedTimespan(-18000, 0, Some(<<"E", "S", "T">>))>>,
        <<162370800, FixedTimespan(-18000, 3600, Some(<<"E", "D", "T">>))>>,
        <<183535200, FixedTimespan(-18000, 0, Some(<<"E", "S", "T">>))>>,
        <<199263600, FixedTimespan(-18000, 3600, Some(<<"E", "D", "T">>))>>,
        <<215589600, FixedTimespan(-18000, 0, Some(<<"E", "S", "T">>))>>,
        <<230713200, FixedTimespan(-18000, 3600, Some(<<"E", "D", "T">>))>>,
        <<247039200, FixedTimespan(-18000, 0, Some(<<"E", "S", "T">>))>>,
        <<262767600, FixedTimespan(-18000, 3600, Some(<<"E", "D", "T">>))>>,
        <<278488800, FixedTimespan(-18000, 0, Some(<<"E", "S", "T">>))>>,
        <<294217200, FixedTimespan(-18000, 3600, Some(<<"E", "D", "T">>))>>,
        <<309938400, FixedTimespan(-18000, 0, Some(<<"E", "S", "T">>))>>,
        <<325666800, FixedTimespan(-18000, 3600, Some(<<"E", "D", "T">>))>>,
        <<341388000, FixedTimespan(-18000, 0, Some(<<"E", "S", "T">>))>>,
        <<357116400, FixedTimespan(-18000, 3600, Some(<<"E", "D", "T">>))>>,
        <<372837600, FixedTimespan(-18000, 0, Some(<<"E", "S", "T">>))>>,
        <<388566000, FixedTimespan(-18000, 3600, Some(<<"E", "D", "T">>))>>,
        <<404892000, FixedTimespan(-18000, 0, Some(<<"E", "S", "T">>))>>,
        <<420015600, FixedTimespan(-18000, 3600, Some(<<"E", "D", "T">>))>>,
        <<436341600, FixedTimespan(-18000, 0, Some(<<"E", "S", "T">>))>>,
        <<452070000, FixedTimespan(-18000, 3600, Some(<<"E", "D", "T">>))>>,
        <<467791200, FixedTimespan(-18000, 0, Some(<<"E", "S", "T">>))>>,
        <<483519600, FixedTimespan(-18000, 3600, Some(<<"E", "D", "T">>))>>,
        <<499240800, FixedTimespan(-18000, 0, Some(<<"E", "S", "T">>))>>,
        <<514969200, FixedTimespan(-18000, 3600, Some(<<"E", "D", "T">>))>>,
        <<530690400, FixedTimespan(-18000, 0, Some(<<"E", "S", "T">>))>>,
        <<544604400, FixedTimespan(-18000, 3600, Some(<<"E", "D", "T">>))>>,
        <<562140000, FixedTimespan(-18000, 0, Some(<<"E", "S", "T">>))>>,
        <<576054000, FixedTimespan(-18000, 3600, Some(<<"E", "D", "T">>))>>,
        <<594194400, FixedTimespan(-18000, 0, Some(<<"E", "S", "T">>))>>,
        <<607503600, FixedTimespan(-18000, 3600, Some(<<"E", "D", "T">>))>>,
        <<625644000, FixedTimespan(-18000, 0, Some(<<"E", "S", "T">>))>>,
        <<638953200, FixedTimespan(-18000, 3600, Some(<<"E", "D", "T">>))>>,
        <<657093600, FixedTimespan(-18000, 0, Some(<<"E", "S", "T">>))>>,
        <<671007600, FixedTimespan(-18000, 3600, Some(<<"E", "D", "T">>))>>,
        <<688543200, FixedTimespan(-18000, 0, Some(<<"E", "S", "T">>))>>,
        <<702457200, FixedTimespan(-18000, 3600, Some(<<"E", "D", "T">>))>>,
        <<719992800, FixedTimespan(-18000, 0, Some(<<"E", "S", "T">>))>>,
        <<733906800, FixedTimespan(-18000, 3600, Some(<<"E", "D", "T">>))>>,
        <<752047200, FixedTimespan(-18000, 0, Some(<<"E", "S", "T">>))>>,
        <<765356400, FixedTimespan(-18000, 3600, Some(<<"E", "D", "T">>))>>,
        <<783496800, FixedTimespan(-18000, 0, Some(<<"E", "S", "T">>))>>,
        <<796806000, FixedTimespan(-18000, 3600, Some(<<"E", "D", "T">>))>>,
        <<814946400, FixedTimespan(-18000, 0, Some(<<"E", "S", "T">>))>>,
        <<828860400, FixedTimespan(-18000, 3600, Some(<<"E", "D", "T">>))>>,
        <<846396000, FixedTimespan(-18000, 0, Some(<<"E", "S", "T">>))>>,
        <<860310000, FixedTimespan(-18000, 3600, Some(<<"E", "D", "T">>))>>,
        <<877845600, FixedTimespan(-18000, 0, Some(<<"E", "S", "T">>))>>,
        <<891759600, FixedTimespan(-18000, 3600, Some(<<"E", "D", "T">>))>>,
        <<909295200, FixedTimespan(-18000, 0, Some(<<"E", "S", "T">>))>>,
        <<923209200, FixedTimespan(-18000, 3600, Some(<<"E", "D", "T">>))>>,
        <<941349600, FixedTimespan(-18000, 0, Some(<<"E", "S", "T">>))>>,
        <<954658800, FixedTimespan(-18000, 3600, Some(<<"E", "D", "T">>))>>,
        <<972799200, FixedTimespan(-18000, 0, Some(<<"E", "S", "T">>))>>,
        <<986108400, FixedTimespan(-18000, 3600, Some(<<"E", "D", "T">>))>>,
        <<1004248800, FixedTimespan(-18000, 0, Some(<<"E", "S", "T">>))>>,
        <<1018162800, FixedTimespan(-18000, 3600, Some(<<"E", "D", "T">>))>>,
        <<1035698400, FixedTimespan(-18000, 0, Some(<<"E", "S", "T">>))>>,
        <<1049612400, FixedTimespan(-18000, 3600, Some(<<"E", "D", "T">>))>>,
        <<1067148000, FixedTimespan(-18000, 0, Some(<<"E", "S", "T">>))>>,
        <<1081062000, FixedTimespan(-18000, 3600, Some(<<"E", "D", "T">>))>>,
        <<1099202400, FixedTimespan(-18000, 0, Some(<<"E", "S", "T">>))>>,
        <<1112511600, FixedTimespan(-18000, 3600, Some(<<"E", "D", "T">>))>>,
        <<1130652000, FixedTimespan(-18000, 0, Some(<<"E", "S", "T">>))>>,
        <<1143961200, FixedTimespan(-18000, 3600, Some(<<"E", "D", "T">>))>>,
        <<1162101600, FixedTimespan(-18000, 0, Some(<<"E", "S", "T">>))>>,
        <<1173596400, FixedTimespan(-18000, 3600, Some(<<"E", "D", "T">>))>>,
        <<1194156000, FixedTimespan(-18000, 0, Some(<<"E", "S", "T">>))>>,
        <<1205046000, FixedTimespan(-18000, 3600, Some(<<"E", "D", "T">>))>>,
        <<1225605600, FixedTimespan(-18000, 0, Some(<<"E", "S", "T">>))>>,
        <<1236495600, FixedTimespan(-18000, 3600, Some(<<"E", "D", "T">>))>>,
        <<1257055200, FixedTimespan(-18000, 0, Some(<<"E", "S", "T">>))>>,
        <<1268550000, FixedTimespan(-18000, 3600, Some(<<"E", "D", "T">>))>>,
        <<1289109600, FixedTimespan(-18000, 0, Some(<<"E", "S", "T">>))>>,
        <<1299999600, FixedTimespan(-18000, 3600, Some(<<"E", "D", "T">>))>>,
        <<1320559200, FixedTimespan(-18000, 0, Some(<<"E", "S", "T">>))>>,
        <<1331449200, FixedTimespan(-18000, 3600, Some(<<"E", "D", "T">>))>>,
        <<1352008800, FixedTimespan(-18000, 0, Some(<<"E", "S", "T">>))>>,
        <<1362898800, FixedTimespan(-18000, 3600, Some(<<"E", "D", "T">>))>>,
        <<1383458400, FixedTimespan(-18000, 0, Some(<<"E", "S", "T">>))>>,
        <<1394348400, FixedTimespan(-18000, 3600, Some(<<"E", "D", "T">>))>>,
        <<1414908000, FixedTimespan(-18000, 0, Some(<<"E", "S", "T">>))>>,
        <<1425798000, FixedTimespan(-18000, 3600, Some(<<"E", "D", "T">>))>>,
        <<1446357600, FixedTimespan(-18000, 0, Some(<<"E", "S", "T">>))>>,
        <<1457852400, FixedTimespan(-18000, 3600, Some(<<"E", "D", "T">>))>>,
        <<1478412000, FixedTimespan(-18000, 0, Some(<<"E", "S", "T">>))>>,
        <<1489302000, FixedTimespan(-18000, 3600, Some(<<"E", "D", "T">>))>>,
        <<1509861600, FixedTimespan(-18000, 0, Some(<<"E", "S", "T">>))>>,
        <<1520751600, FixedTimespan(-18000, 3600, Some(<<"E", "D", "T">>))>>,
        <<1541311200, FixedTimespan(-18000, 0, Some(<<"E", "S", "T">>))>>,
        <<1552201200, FixedTimespan(-18000, 3600, Some(<<"E", "D", "T">>))>>,
        <<1572760800, FixedTimespan(-18000, 0, Some(<<"E", "S", "T">>))>>,
        <<1583650800, FixedTimespan(-18000, 3600, Some(<<"E", "D", "T">>))>>,
        <<1604210400, FixedTimespan(-18000, 0, Some(<<"E", "S", "T">>))>>,
        <<1615705200, FixedTimespan(-18000, 3600, Some(<<"E", "D", "T">>))>>,
        <<1636264800, FixedTimespan(-18000, 0, Some(<<"E", "S", "T">>))>>,
        <<1647154800, FixedTimespan(-18000, 3600, Some(<<"E", "D", "T">>))>>,
        <<1667714400, FixedTimespan(-18000, 0, Some(<<"E", "S", "T">>))>>,
        <<1678604400, FixedTimespan(-18000, 3600, Some(<<"E", "D", "T">>))>>,
        <<1699164000, FixedTimespan(-18000, 0, Some(<<"E", "S", "T">>))>>,
        <<1710054000, FixedTimespan(-18000, 3600, Some(<<"E", "D", "T">>))>>,
        <<1730613600, FixedTimespan(-18000, 0, Some(<<"E", "S", "T">>))>>,
        <<1741503600, FixedTimespan(-18000, 3600, Some(<<"E", "D", "T">>))>>,
        <<1762063200, FixedTimespan(-18000, 0, Some(<<"E", "S", "T">>))>>,
        <<1772953200, FixedTimespan(-18000, 3600, Some(<<"E", "D", "T">>))>>,
        <<1793512800, FixedTimespan(-18000, 0, Some(<<"E", "S", "T">>))>>,
        <<1805007600, FixedTimespan(-18000, 3600, Some(<<"E", "D", "T">>))>>,
        <<1825567200, FixedTimespan(-18000, 0, Some(<<"E", "S", "T">>))>>,
        <<1836457200, FixedTimespan(-18000, 3600, Some(<<"E", "D", "T">>))>>,
        <<1857016800, FixedTimespan(-18000, 0, Some(<<"E", "S", "T">>))>>,
        <<1867906800, FixedTimespan(-18000, 3600, Some(<<"E", "D", "T">>))>>,
        <<1888466400, FixedTimespan(-18000, 0, Some(<<"E", "S", "T">>))>>,
        <<1899356400, FixedTimespan(-18000, 3600, Some(<<"E", "D", "T">>))>>,
        <<1919916000, FixedTimespan(-18000, 0, Some(<<"E", "S", "T">>))>>,
        <<1930806000, FixedTimespan(-18000, 3600, Some(<<"E", "D", "T">>))>>,
        <<1951365600, FixedTimespan(-18000, 0, Some(<<"E", "S", "T">>))>>,
        <<1962860400, FixedTimespan(-18000, 3600, Some(<<"E", "D", "T">>))>>,
        <<1983420000, FixedTimespan(-18000, 0, Some(<<"E", "S", "T">>))>>,
        <<1994310000, FixedTimespan(-18000, 3600, Some(<<"E", "D", "T">>))>>,
        <<2014869600, FixedTimespan(-18000, 0, Some(<<"E", "S", "T">>))>>,
        <<2025759600, FixedTimespan(-18000, 3600, Some(<<"E", "D", "T">>))>>,
        <<2046319200, FixedTimespan(-18000, 0, Some(<<"E", "S", "T">>))>>,
        <<2057209200, FixedTimespan(-18000, 3600, Some(<<"E", "D", "T">>))>>,
        <<2077768800, FixedTimespan(-18000, 0, Some(<<"E", "S", "T">>))>>,
        <<2088658800, FixedTimespan(-18000, 3600, Some(<<"E", "D", "T">>))>>,
        <<2109218400, FixedTimespan(-18000, 0, Some(<<"E", "S", "T">>))>>,
        <<2120108400, FixedTimespan(-18000, 3600, Some(<<"E", "D", "T">>))>>,
        <<2140668000, FixedTimespan(-18000, 0, Some(<<"E", "S", "T">>))>> >>]

\* America/Los_Angeles: the span in force at second -2^31 and the transitions after it.
Timespans_America__Los_Angeles ==
    [first |-> FixedTimespan(-28800, 0, Some(<<"P", "S", "T">>)),
     rest |-> <<
        <<-1633269600, FixedTimespan(-28800, 3600, Some(<<"P", "D", "T">>))>>,
        <<-1615129200, FixedTimespan(-28800, 0, Some(<<"P", "S", "T">>))>>,
        <<-1601820000, FixedTimespan(-28800, 3600, Some(<<"P", "D", "T">>))>>,
        <<-1583679600, FixedTimespan(-28800, 0, Some(<<"P", "S", "T">>))>>,
        <<-880207200, FixedTimespan(-28800, 3600, Some(<<"P", "W", "T">>))>>,
        <<-769395600, FixedTimespan(-28800, 3600, Some(<<"P", "P", "T">>))>>,
        <<-765385200, FixedTimespan(-28800, 0, Some(<<"P", "S", "T">>))>>,
        <<-687967140, FixedTimespan(-28800, 3600, Some(<<"P", "D", "T">>))>>,
        <<-662655600, FixedTimespan(-28800, 0, Some(<<"P", "S", "T">>))>>,
        <<-620838000, FixedTimespan(-28800, 3600, Some(<<"P", "D", "T">>))>>,
        <<-608137200, FixedTimespan(-28800, 0, Some(<<"P", "S", "T">>))>>,
        <<-589388400, FixedTimespan(-28800, 3600, Some(<<"P", "D", "T">>))>>,
        <<-576082800, FixedTimespan(-28800, 0, Some(<<"P", "S", "T">>))>>,
        <<-557938800, FixedTimespan(-28800, 3600, Some(<<"P", "D", "T">>))>>,
        <<-544633200, FixedTimespan(-28800, 0, Some(<<"P", "S", "T">>))>>,
        <<-526489200, FixedTimespan(-28800, 3600, Some(<<"P", "D", "T">>))>>,
        <<-513183600, FixedTimespan(-28800, 0, Some(<<"P", "S", "T">>))>>,
        <<-495039600, FixedTimespan(-28800, 3600, Some(<<"P", "D", "T">>))>>,
        <<-481734000, FixedTimespan(-28800, 0, Some(<<"P", "S", "T">>))>>,
        <<-463590000, FixedTimespan(-28800, 3600, Some(<<"P", "D", "T">>))>>,
        <<-450284400, FixedTimespan(-28800, 0, Some(<<"P", "S", "T">>))>>,
        <<-431535600, FixedTimespan(-28800, 3600, Some(<<"P", "D", "T">>))>>,
        <<-418230000, FixedTimespan(-28800, 0, Some(<<"P", "S", "T">>))>>,
        <<-400086000, FixedTimespan(-28800, 3600, Some(<<"P", "D", "T">>))>>,
        <<-386780400, FixedTimespan(-28800, 0, Some(<<"P", "S", "T">>))>>,
        <<-368636400, FixedTimespan(-28800, 3600, Some(<<"P", "D", "T">>))>>,
        <<-355330800, FixedTimespan(-28800, 0, Some(<<"P", "S", "T">>))>>,
        <<-337186800, FixedTimespan(-28800, 3600, Some(<<"P", "D", "T">>))>>,
        <<-323881200, FixedTimespan(-28800, 0, Some(<<"P", "S", "T">>))>>,
        <<-305737200, FixedTimespan(-28800, 3600, Some(<<"P", "D", "T">>))>>,
        <<-292431600, FixedTimespan(-28800, 0, Some(<<"P", "S", "T">>))>>,
        <<-273682800, FixedTimespan(-28800, 3600, Some(<<"P", "D", "T">>))>>,
        <<-260982000, FixedTimespan(-28800, 0, Some(<<"P", "S", "T">>))>>,
        <<-242233200, FixedTimespan(-28800, 3600, Some(<<"P", "D", "T">>))>>,
        <<-226508400, FixedTimespan(-28800, 0, Some(<<"P", "S", "T">>))>>,
        <<-210783600, FixedTimespan(-28800, 3600, Some(<<"P", "D", "T">>))>>,
        <<-195058800, FixedTimespan(-28800, 0, Some(<<"P", "S", "T">>))>>,
        <<-179334000, FixedTimespan(-28800, 3600, Some(<<"P", "D", "T">>))>>,
        <<-163609200, FixedTimespan(-28800, 0, Some(<<"P", "S", "T">>))>>,
        <<-147884400, FixedTimespan(-28800, 3600, Some(<<"P", "D", "T">>))>>,
        <<-131554800, FixedTimespan(-28800, 0, Some(<<"P", "S", "T">>))>>,
        <<-116434800, FixedTimespan(-28800, 3600, Some(<<"P", "D", "T">>))>>,
        <<-100105200, FixedTimespan(-28800, 0, Some(<<"P", "S", "T">>))>>,
        <<-84376800, FixedTimespan(-28800, 3600, Some(<<"P", "D", "T">>))>>,
        <<-68655600, FixedTimespan(-28800, 0, Some(<<"P", "S", "T">>))>>,
        <<-52927200, FixedTimespan(-28800, 3600, Some(<<"P", "D", "T">>))>>,
        <<-37206000, FixedTimespan(-28800, 0, Some(<<"P", "S", "T">>))>>,
        <<-21477600, FixedTimespan(-28800, 3600, Some(<<"P", "D", "T">>))>>,
        <<-5756400, FixedTimespan(-28800, 0, Some(<<"P", "S", "T">>))>>,
        <<9972000, FixedTimespan(-28800, 3600, Some(<<"P", "D", "T">>))>>,
        <<25693200, FixedTimespan(-28800, 0, Some(<<"P", "S", "T">>))>>,
        <<41421600, FixedTimespan(-28800, 3600, Some(<<"P", "D", "T">>))>>,
        <<57747600, FixedTimespan(-28800, 0, Some(<<"P", "S", "T">>))>>,
        <<73476000, FixedTimespan(-28800, 3600, Some(<<"P", "D", "T">>))>>,
        <<89197200, FixedTimespan(-28800, 0, Some(<<"P", "S", "T">>))>>,
        <<104925600, FixedTimespan(-28800, 3600, Some(<<"P", "D", "T">>))>>,
        <<120646800, FixedTimespan(-28800, 0, Some(<<"P", "S", "T">>))>>,
        <<126698400, FixedTimespan(-28800, 3600, Some(<<"P", "D", "T">>))>>,
        <<152096400, FixedTimespan(-28800, 0, Some(<<"P", "S", "T">>))>>,
        <<162381600, FixedTimespan(-28800, 3600, Some(<<"P", "D", "T">>))>>,
        <<183546000, FixedTimespan(-28800, 0, Some(<<"P", "S", "T">>))>>,
        <<199274400, FixedTimespan(-28800, 3600, Some(<<"P", "D", "T">>))>>,
        <<215600400, FixedTimespan(-28800, 0, Some(<<"P", "S", "T">>))>>,
        <<230724000, FixedTimespan(-28800, 3600, Some(<<"P", "D", "T">>))>>,
        <<247050000, FixedTimespan(-28800, 0, Some(<<"P", "S", "T">>))>>,
        <<262778400, FixedTimespan(-28800, 3600, Some(<<"P", "D", "T">>))>>,
        <<278499600, FixedTimespan(-28800, 0, Some(<<"P", "S", "T">>))>>,
        <<294228000, FixedTimespan(-28800, 3600, Some(<<"P", "D", "T">>))>>,
        <<309949200, FixedTimespan(-28800, 0, Some(<<"P", "S", "T">>))>>,
        <<325677600, FixedTimespan(-28800, 3600, Some(<<"P", "D", "T">>))>>,
        <<341398800, FixedTimespan(-28800, 0, Some(<<"P", "S", "T">>))>>,
        <<357127200, FixedTimespan(-28800, 3600, Some(<<"P", "D", "T">>))>>,
        <<372848400, FixedTimespan(-28800, 0, Some(<<"P", "S", "T">>))>>,
        <<388576800, FixedTimespan(-28800, 3600, Some(<<"P", "D", "T">>))>>,
        <<404902800, FixedTimespan(-28800, 0, Some(<<"P", "S", "T">>))>>,
        <<420026400, FixedTimespan(-28800, 3600, Some(<<"P", "D", "T">>))>>,
        <<436352400, FixedTimespan(-28800, 0, Some(<<"P", "S", "T">>))>>,
        <<452080800, FixedTimespan(-28800, 3600, Some(<<"P", "D", "T">>))>>,
        <<467802000, FixedTimespan(-28800, 0, Some(<<"P", "S", "T">>))>>,
        <<483530400, FixedTimespan(-28800, 3600, Some(<<"P", "D", "T">>))>>,
        <<499251600, FixedTimespan(-28800, 0, Some(<<"P", "S", "T">>))>>,
        <<514980000, FixedTimespan(-28800, 3600, Some(<<"P", "D", "T">>))>>,
        <<530701200, FixedTimespan(-28800, 0, Some(<<"P", "S", "T">>))>>,
        <<544615200, FixedTimespan(-28800, 3600, Some(<<"P", "D", "T">>))>>,
        <<562150800, FixedTimespan(-28800, 0, Some(<<"P", "S", "T">>))>>,
        <<576064800, FixedTimespan(-28800, 3600, Some(<<"P", "D", "T">>))>>,
        <<594205200, FixedTimespan(-28800, 0, Some(<<"P", "S", "T">>))>>,
        <<607514400, FixedTimespan(-28800, 3600, Some(<<"P", "D", "T">>))>>,
        <<625654800, FixedTimespan(-28800, 0, Some(<<"P", "S", "T">>))>>,
        <<638964000, FixedTimespan(-28800, 3600, Some(<<"P", "D", "T">>))>>,
        <<657104400, FixedTimespan(-28800, 0, Some(<<"P", "S", "T">>))>>,
        <<671018400, FixedTimespan(-28800, 3600, Some(<<"P", "D", "T">>))>>,
        <<688554000, FixedTimespan(-28800, 0, Some(<<"P", "S", "T">>))>>,
        <<702468000, FixedTimespan(-28800, 3600, Some(<<"P", "D", "T">>))>>,
        <<720003600, FixedTimespan(-28800, 0, Some(<<"P", "S", "T">>))>>,
        <<733917600, FixedTimespan(-28800, 3600, Some(<<"P", "D", "T">>))>>,
        <<752058000, FixedTimespan(-28800, 0, Some(<<"P", "S", "T">>))>>,
        <<765367200, FixedTimespan(-28800, 3600, Some(<<"P", "D", "T">>))>>,
        <<783507600, FixedTimespan(-28800, 0, Some(<<"P", "S", "T">>))>>,
        <<796816800, FixedTimespan(-28800, 3600, Some(<<"P", "D", "T">>))>>,
        <<814957200, FixedTimespan(-28800, 0, Some(<<"P", "S", "T">>))>>,
        <<828871200, FixedTimespan(-28800, 3600, Some(<<"P", "D", "T">>))>>,
        <<846406800, FixedTimespan(-28800, 0, Some(<<"P", "S", "T">>))>>,
        <<860320800, FixedTimespan(-28800, 3600, Some(<<"P", "D", "T">>))>>,
        <<877856400, FixedTimespan(-28800, 0, Some(<<"P", "S", "T">>))>>,
        <<891770400, FixedTimespan(-28800, 3600, Some(<<"P", "D", "T">>))>>,
        <<909306000, FixedTimespan(-28800, 0, Some(<<"P", "S", "T">>))>>,
        <<923220000, FixedTimespan(-28800, 3600, Some(<<"P", "D", "T">>))>>,
        <<941360400, FixedTimespan(-28800, 0, Some(<<"P", "S", "T">>))>>,
        <<954669600, FixedTimespan(-28800, 3600, Some(<<"P", "D", "T">>))>>,
        <<972810000, FixedTimespan(-28800, 0, Some(<<"P", "S", "T">>))>>,
        <<986119200, FixedTimespan(-28800, 3600, Some(<<"P", "D", "T">>))>>,
        <<1004259600, FixedTimespan(-28800, 0, Some(<<"P", "S", "T">>))>>,
        <<1018173600, FixedTimespan(-28800, 3600, Some(<<"P", "D", "T">>))>>,
        <<1035709200, FixedTimespan(-28800, 0, Some(<<"P", "S", "T">>))>>,
        <<1049623200, FixedTimespan(-28800, 3600, Some(<<"P", "D", "T">>))>>,
        <<1067158800, FixedTimespan(-28800, 0, Some(<<"P", "S", "T">>))>>,
        <<1081072800, FixedTimespan(-28800, 3600, Some(<<"P", "D", "T">>))>>,
        <<1099213200, FixedTimespan(-28800, 0, Some(<<"P", "S", "T">>))>>,
        <<1112522400, FixedTimespan(-28800, 3600, Some(<<"P", "D", "T">>))>>,
        <<1130662800, FixedTimespan(-28800, 0, Some(<<"P", "S", "T">>))>>,
        <<1143972000, FixedTimespan(-28800, 3600, Some(<<"P", "D", "T">>))>>,
        <<1162112400, FixedTimespan(-28800, 0, Some(<<"P", "S", "T">>))>>,
        <<1173607200, FixedTimespan(-28800, 3600, Some(<<"P", "D", "T">>))>>,
        <<1194166800, FixedTimespan(-28800, 0, Some(<<"P", "S", "T">>))>>,
        <<1205056800, FixedTimespan(-28800, 3600, Some(<<"P", "D", "T">>))>>,
        <<1225616400, FixedTimespan(-28800, 0, Some(<<"P", "S", "T">>))>>,
        <<1236506400, FixedTimespan(-28800, 3600, Some(<<"P", "D", "T">>))>>,
        <<1257066000, FixedTimespan(-28800, 0, Some(<<"P", "S", "T">>))>>,
        <<1268560800, FixedTimespan(-28800, 3600, Some(<<"P", "D", "T">>))>>,
        <<1289120400, FixedTimespan(-28800, 0, Some(<<"P", "S", "T">>))>>,
        <<1300010400, FixedTimespan(-28800, 3600, Some(<<"P", "D", "T">>))>>,
        <<1320570000, FixedTimespan(-28800, 0, Some(<<"P", "S", "T">>))>>,
        <<1331460000, FixedTimespan(-28800, 3600, Some(<<"P", "D", "T">>))>>,
        <<1352019600, FixedTimespan(-28800, 0, Some(<<"P", "S", "T">>))>>,
        <<1362909600, FixedTimespan(-28800, 3600, Some(<<"P", "D", "T">>))>>,
        <<1383469200, FixedTimespan(-28800, 0, Some(<<"P", "S", "T">>))>>,
        <<1394359200, FixedTimespan(-28800, 3600, Some(<<"P", "D", "T">>))>>,
        <<1414918800, FixedTimespan(-28800, 0, Some(<<"P", "S", "T">>))>>,
        <<1425808800, FixedTimespan(-28800, 3600, Some(<<"P", "D", "T">>))>>,
        <<1446368400, FixedTimespan(-28800, 0, Some(<<"P", "S", "T">>))>>,
        <<1457863200, FixedTimespan(-28800, 3600, Some(<<"P", "D", "T">>))>>,
        <<1478422800, FixedTimespan(-28800, 0, Some(<<"P", "S", "T">>))>>,
        <<1489312800, FixedTimespan(-28800, 3600, Some(<<"P", "D", "T">>))>>,
        <<1509872400, FixedTimespan(-28800, 0, Some(<<"P", "S", "T">>))>>,
        <<1520762400, FixedTimespan(-28800, 3600, Some(<<"P", "D", "T">>))>>,
        <<1541322000, FixedTimespan(-28800, 0, Some(<<"P", "S", "T">>))>>,
        <<1552212000, FixedTimespan(-28800, 3600, Some(<<"P", "D", "T">>))>>,
        <<1572771600, FixedTimespan(-28800, 0, Some(<<"P", "S", "T">>))>>,
        <<1583661600, FixedTimespan(-28800, 3600, Some(<<"P", "D", "T">>))>>,
        <<1604221200, FixedTimespan(-28800, 0, Some(<<"P", "S", "T">>))>>,
        <<1615716000, FixedTimespan(-28800, 3600, Some(<<"P", "D", "T">>))>>,
        <<1636275600, FixedTimespan(-28800, 0, Some(<<"P", "S", "T">>))>>,
        <<1647165600, FixedTimespan(-28800, 3600, Some(<<"P", "D", "T">>))>>,
        <<1667725200, FixedTimespan(-28800, 0, Some(<<"P", "S", "T">>))>>,
        <<1678615200, FixedTimespan(-28800, 3600, Some(<<"P", "D", "T">>))>>,
        <<1699174800, FixedTimespan(-28800, 0, Some(<<"P", "S", "T">>))>>,
        <<1710064800, FixedTimespan(-28800, 3600, Some(<<"P", "D", "T">>))>>,
        <<1730624400, FixedTimespan(-28800, 0, Some(<<"P", "S", "T">>))>>,
        <<1741514400, FixedTimespan(-28800, 3600, Some(<<"P", "D", "T">>))>>,
        <<1762074000, FixedTimespan(-28800, 0, Some(<<"P", "S", "T">>))>>,
        <<1772964000, FixedTimespan(-28800, 3600, Some(<<"P", "D", "T">>))>>,
        <<1793523600, FixedTimespan(-28800, 0, Some(<<"P", "S", "T">>))>>,
        <<1805018400, FixedTimespan(-28800, 3600, Some(<<"P", "D", "T">>))>>,
        <<1825578000, FixedTimespan(-28800, 0, Some(<<"P", "S", "T">>))>>,
        <<1836468000, FixedTimespan(-28800, 3600, Some(<<"P", "D", "T">>))>>,
        <<1857027600, FixedTimespan(-28800, 0, Some(<<"P", "S", "T">>))>>,
        <<1867917600, FixedTimespan(-28800, 3600, Some(<<"P", "D", "T">>))>>,
        <<1888477200, FixedTimespan(-28800, 0, Some(<<"P", "S", "T">>))>>,
        <<1899367200, FixedTimespan(-28800, 3600, Some(<<"P", "D", "T">>))>>,
        <<1919926800, FixedTimespan(-28800, 0, Some(<<"P", "S", "T">>))>>,
        <<1930816800, FixedTimespan(-28800, 3600, Some(<<"P", "D", "T">>))>>,
        <<1951376400, FixedTimespan(-28800, 0, Some(<<"P", "S", "T">>))>>,
        <<1962871200, FixedTimespan(-28800, 3600, Some(<<"P", "D", "T">>))>>,
        <<1983430800, FixedTimespan(-28800, 0, Some(<<"P", "S", "T">>))>>,
        <<1994320800, FixedTimespan(-28800, 3600, Some(<<"P", "D", "T">>))>>,
        <<2014880400, FixedTimespan(-28800, 0, Some(<<"P", "S", "T">>))>>,
        <<2025770400, FixedTimespan(-28800, 3600, Some(<<"P", "D", "T">>))>>,
        <<2046330000, FixedTimespan(-28800, 0, Some(<<"P", "S", "T">>))>>,
        <<2057220000, FixedTimespan(-28800, 3600, Some(<<"P", "D", "T">>))>>,
        <<2077779600, FixedTimespan(-28800, 0, Some(<<"P", "S", "T">>))>>,
        <<2088669600, FixedTimespan(-28800, 3600, Some(<<"P", "D", "T">>))>>,
        <<2109229200, FixedTimespan(-28800, 0, Some(<<"P", "S", "T">>))>>,
        <<2120119200, FixedTimespan(-28800, 3600, Some(<<"P", "D", "T">>))>>,
        <<2140678800, FixedTimespan(-28800, 0, Some(<<"P", "S", "T">>))>> >>]

\* America/Sao_Paulo: the span in force at second -2^31 and the transitions after it.
Timespans_America__Sao_Paulo ==
    [first |-> FixedTimespan(-11188, 0, Some(<<"L", "M", "T">>)),
     rest |-> <<
        <<-1767214412, FixedTimespan(-10800, 0, None)>>,
        <<-1206957600, FixedTimespan(-10800, 3600, None)>>,
        <<-1191362400, FixedTimespan(-10800, 0, None)>>,
        <<-1175374800, FixedTimespan(-10800, 3600, None)>>,
        <<-1159826400, FixedTimespan(-10800, 0, None)>>,
        <<-633819600, FixedTimespan(-10800, 3600, None)>>,
        <<-622069200, FixedTimespan(-10800, 0, None)>>,
        <<-602283600, FixedTimespan(-10800, 3600, None)>>,
        <<-591832800, FixedTimespan(-10800, 0, None)>>,
        <<-570747600, FixedTimespan(-10800, 3600, None)>>,
        <<-560210400, FixedTimespan(-10800, 0, None)>>,
        <<-539125200, FixedTimespan(-10800, 3600, None)>>,
        <<-531352800, FixedTimespan(-10800, 0, None)>>,
        <<-195426000, FixedTimespan(-10800, 3600, None)>>,
        <<-184197600, FixedTimespan(-10800, 0, None)>>,
        <<-155163600, FixedTimespan(-10800, 3600, None)>>,
        <<-150069600, FixedTimespan(-10800, 0, None)>>,
        <<-128898000, FixedTimespan(-10800, 3600, None)>>,
        <<-121125600, FixedTimespan(-10800, 0, None)>>,
        <<-99954000, FixedTimespan(-10800, 3600, None)>>,
        <<-89589600, FixedTimespan(-10800, 0, None)>>,
        <<-68418000, FixedTimespan(-10800, 3600, None)>>,
        <<-57967200, FixedTimespan(-10800, 0, None)>>,
        <<499748400, FixedTimespan(-10800, 3600, None)>>,
        <<511236000, FixedTimespan(-10800, 0, None)>>,
        <<530593200, FixedTimespan(-10800, 3600, None)>>,
        <<540266400, FixedTimespan(-10800, 0, None)>>,
        <<562129200, FixedTimespan(-10800, 3600, None)>>,
        <<571197600, FixedTimespan(-10800, 0, None)>>,
        <<592974000, FixedTimespan(-10800, 3600, None)>>,
        <<602042400, FixedTimespan(-10800, 0, None)>>,
        <<624423600, FixedTimespan(-10800, 3600, None)>>,
        <<634701600, FixedTimespan(-10800, 0, None)>>,
        <<656478000, FixedTimespan(-10800, 3600, None)>>,
        <<666756000, FixedTimespan(-10800, 0, None)>>,
        <<687927600, FixedTimespan(-10800, 3600, None)>>,
        <<697600800, FixedTimespan(-10800, 0, None)>>,
        <<719982000, FixedTimespan(-10800, 3600, None)>>,
        <<728445600, FixedTimespan(-10800, 0, None)>>,
        <<750826800, FixedTimespan(-10800, 3600, None)>>,
        <<761709600, FixedTimespan(-10800, 0, None)>>,
        <<782276400, FixedTimespan(-10800, 3600, None)>>,
        <<793159200, FixedTimespan(-10800, 0, None)>>,
        <<813726000, FixedTimespan(-10800, 3600, None)>>,
        <<824004000, FixedTimespan(-10800, 0, None)>>,
        <<844570800, FixedTimespan(-10800, 3600, None)>>,
        <<856058400, FixedTimespan(-10800, 0, None)>>,
        <<876106800, FixedTimespan(-10800, 3600, None)>>,
        <<888717600, FixedTimespan(-10800, 0, None)>>,
        <<908074800, FixedTimespan(-10800, 3600, None)>>,
        <<919562400, FixedTimespan(-10800, 0, None)>>,
        <<938919600, FixedTimespan(-10800, 3600, None)>>,
        <<951616800, FixedTimespan(-10800, 0, None)>>,
        <<970974000, FixedTimespan(-10800, 3600, None)>>,
        <<982461600, FixedTimespan(-10800, 0, None)>>,
        <<1003028400, FixedTimespan(-10800, 3600, None)>>,
        <<1013911200, FixedTimespan(-10800, 0, None)>>,
        <<1036292400, FixedTimespan(-10800, 3600, None)>>,
        <<1045360800, FixedTimespan(-10800, 0, None)>>,
        <<1066532400, FixedTimespan(-10800, 3600, None)>>,
        <<1076810400, FixedTimespan(-10800, 0, None)>>,
        <<1099364400, FixedTimespan(-10800, 3600, None)>>,
        <<1108864800, FixedTimespan(-10800, 0, None)>>,
        <<1129431600, FixedTimespan(-10800, 3600, None)>>,
        <<1140314400, FixedTimespan(-10800, 0, None)>>,
        <<1162695600, FixedTimespan(-10800, 3600, None)>>,
        <<1172368800, FixedTimespan(-10800, 0, None)>>,
        <<1192330800, FixedTimespan(-10800, 3600, None)>>,
        <<1203213600, FixedTimespan(-10800, 0, None)>>,
        <<1224385200, FixedTimespan(-10800, 3600, None)>>,
        <<1234663200, FixedTimespan(-10800, 0, None)>>,
        <<1255834800, FixedTimespan(-10800, 3600, None)>>,
        <<1266717600, FixedTimespan(-10800, 0, None)>>,
        <<1287284400, FixedTimespan(-10800, 3600, None)>>,
        <<1298167200, FixedTimespan(-10800, 0, None)>>,
        <<1318734000, FixedTimespan(-10800, 3600, None)>>,
        <<1330221600, FixedTimespan(-10800, 0, None)>>,
        <<1350788400, FixedTimespan(-10800, 3600, None)>>,
        <<1361066400, FixedTimespan(-10800, 0, None)>>,
        <<1382238000, FixedTimespan(-10800, 3600, None)>>,
        <<1392516000, FixedTimespan(-10800, 0, None)>>,
        <<1413687600, FixedTimespan(-10800, 3600, None)>>,
        <<1424570400, FixedTimespan(-10800, 0, None)>>,
        <<1445137200, FixedTimespan(-10800, 3600, None)>>,
        <<1456020000, FixedTimespan(-10800, 0, None)>>,
        <<1476586800, FixedTimespan(-10800, 3600, None)>>,
        <<1487469600, FixedTimespan(-10800, 0, None)>>,
        <<1508036400, FixedTimespan(-10800, 3600, None)>>,
        <<1518919200, FixedTimespan(-10800, 0, None)>>,
        <<1541300400, FixedTimespan(-10800, 3600, None)>>,
        <<1550368800, FixedTimespan(-10800, 0, None)>> >>]

\* Europe/London: the span in force at second -2^31 and the transitions after it.
Timespans_Europe__London ==
    [first |-> FixedTimespan(0, 0, Some(<<"G", "M", "T">>)),
     rest |-> <<
        <<-1691964000, FixedTimespan(0, 3600, Some(<<"B", "S", "T">>))>>,
        <<-1680472800, FixedTimespan(0, 0, Some(<<"G", "M", "T">>))>>,
        <<-1664143200, FixedTimespan(0, 3600, Some(<<"B", "S", "T">>))>>,
        <<-1650146400, FixedTimespan(0, 0, Some(<<"G", "M", "T">>))>>,
        <<-1633903200, FixedTimespan(0, 3600, Some(<<"B", "S", "T">>))>>,
        <<-1617487200, FixedTimespan(0, 0, Some(<<"G", "M", "T">>))>>,
        <<-1601848800, FixedTimespan(0, 3600, Some(<<"B", "S", "T">>))>>,
        <<-1586037600, FixedTimespan(0, 0, Some(<<"G", "M", "T">>))>>,
        <<-1570399200, FixedTimespan(0, 3600, Some(<<"B", "S", "T">>))>>,
        <<-1552168800, FixedTimespan(0, 0, Some(<<"G", "M", "T">>))>>,
        <<-1538344800, FixedTimespan(0, 3600, Some(<<"B", "S", "T">>))>>,
        <<-1522533600, FixedTimespan(0, 0, Some(<<"G", "M", "T">>))>>,
        <<-1507500000, FixedTimespan(0, 3600, Some(<<"B", "S", "T">>))>>,
        <<-1490565600, FixedTimespan(0, 0, Some(<<"G", "M", "T">>))>>,
        <<-1473631200, FixedTimespan(0, 3600, Some(<<"B", "S", "T">>))>>,
        <<-1460930400, FixedTimespan(0, 0, Some(<<"G", "M", "T">>))>>,
        <<-1442786400, FixedTimespan(0, 3600, Some(<<"B", "S", "T">>))>>,
        <<-1428876000, FixedTimespan(0, 0, Some(<<"G", "M", "T">>))>>,
        <<-1410732000, FixedTimespan(0, 3600, Some(<<"B", "S", "T">>))>>,
        <<-1396216800, FixedTimespan(0, 0, Some(<<"G", "M", "T">>))>>,
        <<-1379282400, FixedTimespan(0, 3600, Some(<<"B", "S", "T">>))>>,
        <<-1364767200, FixedTimespan(0, 0, Some(<<"G", "M", "T">>))>>,
        <<-1348437600, FixedTimespan(0, 3600, Some(<<"B", "S", "T">>))>>,
        <<-1333317600, FixedTimespan(0, 0, Some(<<"G", "M", "T">>))>>,
        <<-1315778400, FixedTimespan(0, 3600, Some(<<"B", "S", "T">>))>>,
        <<-1301263200, FixedTimespan(0, 0, Some(<<"G", "M", "T">>))>>,
        <<-1284328800, FixedTimespan(0, 3600, Some(<<"B", "S", "T">>))>>,
        <<-1269813600, FixedTimespan(0, 0, Some(<<"G", "M", "T">>))>>,
        <<-1253484000, FixedTimespan(0, 3600, Some(<<"B", "S", "T">>))>>,
        <<-1238364000, FixedTimespan(0, 0, Some(<<"G", "M", "T">>))>>,
        <<-1221429600, FixedTimespan(0, 3600, Some(<<"B", "S", "T">>))>>,
        <<-1206914400, FixedTimespan(0, 0, Some(<<"G", "M", "T">>))>>,
        <<-1189980000, FixedTimespan(0, 3600, Some(<<"B", "S", "T">>))>>,
        <<-1175464800, FixedTimespan(0, 0, Some(<<"G", "M", "T">>))>>,
        <<-1159135200, FixedTimespan(0, 3600, Some(<<"B", "S", "T">>))>>,
        <<-1143410400, FixedTimespan(0, 0, Some(<<"G", "M", "T">>))>>,
        <<-1126476000, FixedTimespan(0, 3600, Some(<<"B", "S", "T">>))>>,
        <<-1111960800, FixedTimespan(0, 0, Some(<<"G", "M", "T">>))>>,
        <<-1095631200, FixedTimespan(0, 3600, Some(<<"B", "S", "T">>))>>,
        <<-1080511200, FixedTimespan(0, 0, Some(<<"G", "M", "T">>))>>,
        <<-1063576800, FixedTimespan(0, 3600, Some(<<"B", "S", "T">>))>>,
        <<-1049061600, FixedTimespan(0, 0, Some(<<"G", "M", "T">>))>>,
        <<-1032127200, FixedTimespan(0, 3600, Some(<<"B", "S", "T">>))>>,
        <<-1017612000, FixedTimespan(0, 0, Some(<<"G", "M", "T">>))>>,
        <<-1001282400, FixedTimespan(0, 3600, Some(<<"B", "S", "T">>))>>,
        <<-986162400, FixedTimespan(0, 0, Some(<<"G", "M", "T">>))>>,
        <<-969228000, FixedTimespan(0, 3600, Some(<<"B", "S", "T">>))>>,
        <<-950479200, FixedTimespan(0, 0, Some(<<"G", "M", "T">>))>>,
        <<-942012000, FixedTimespan(0, 3600, Some(<<"B", "S", "T">>))>>,
        <<-904518000, FixedTimespan(0, 7200, Some(<<"B", "D", "S", "T">>))>>,
        <<-896050800, FixedTimespan(0, 3600, Some(<<"B", "S", "T">>))>>,
        <<-875487600, FixedTimespan(0, 7200, Some(<<"B", "D", "S", "T">>))>>,
        <<-864601200, FixedTimespan(0, 3600, Some(<<"B", "S", "T">>))>>,
        <<-844038000, FixedTimespan(0, 7200, Some(<<"B", "D", "S", "T">>))>>,
        <<-832546800, FixedTimespan(0, 3600, Some(<<"B", "S", "T">>))>>,
        <<-812588400, FixedTimespan(0, 7200, Some(<<"B", "D", "S", "T">>))>>,
        <<-798073200, FixedTimespan(0, 3600, Some(<<"B", "S", "T">>))>>,
        <<-781052400, FixedTimespan(0, 7200, Some(<<"B", "D", "S", "T">>))>>,
        <<-772066800, FixedTimespan(0, 3600, Some(<<"B", "S", "T">>))>>,
        <<-764805600, FixedTimespan(0, 0, Some(<<"G", "M", "T">>))>>,
        <<-748476000, FixedTimespan(0, 3600, Some(<<"B", "S", "T">>))>>,
        <<-733356000, FixedTimespan(0, 0, Some(<<"G", "M", "T">>))>>,
        <<-719445600, FixedTimespan(0, 3600, Some(<<"B", "S", "T">>))>>,
        <<-717030000, FixedTimespan(0, 7200, Some(<<"B", "D", "S", "T">>))>>,
        <<-706748400, FixedTimespan(0, 3600, Some(<<"B", "S", "T">>))>>,
        <<-699487200, FixedTimespan(0, 0, Some(<<"G", "M", "T">>))>>,
        <<-687996000, FixedTimespan(0, 3600, Some(<<"B", "S", "T">>))>>,
        <<-668037600, FixedTimespan(0, 0, Some(<<"G", "M", "T">>))>>,
        <<-654732000, FixedTimespan(0, 3600, Some(<<"B", "S", "T">>))>>,
        <<-636588000, FixedTimespan(0, 0, Some(<<"G", "M", "T">>))>>,
        <<-622072800, FixedTimespan(0, 3600, Some(<<"B", "S", "T">>))>>,
        <<-605743200, FixedTimespan(0, 0, Some(<<"G", "M", "T">>))>>,
        <<-590623200, FixedTimespan(0, 3600, Some(<<"B", "S", "T">>))>>,
        <<-574293600, FixedTimespan(0, 0, Some(<<"G", "M", "T">>))>>,
        <<-558568800, FixedTimespan(0, 3600, Some(<<"B", "S", "T">>))>>,
        <<-542239200, FixedTimespan(0, 0, Some(<<"G", "M", "T">>))>>,
        <<-527119200, FixedTimespan(0, 3600, Some(<<"B", "S", "T">>))>>,
        <<-512604000, FixedTimespan(0, 0, Some(<<"G", "M", "T">>))>>,
        <<-496274400, FixedTimespan(0, 3600, Some(<<"B", "S", "T">>))>>,
        <<-481154400, FixedTimespan(0, 0, Some(<<"G", "M", "T">>))>>,
        <<-464220000, FixedTimespan(0, 3600, Some(<<"B", "S", "T">>))>>,
        <<-449704800, FixedTimespan(0, 0, Some(<<"G", "M", "T">>))>>,
        <<-432165600, FixedTimespan(0, 3600, Some(<<"B", "S", "T">>))>>,
        <<-417650400, FixedTimespan(0, 0, Some(<<"G", "M", "T">>))>>,
        <<-401320800, FixedTimespan(0, 3600, Some(<<"B", "S", "T">>))>>,
        <<-386200800, FixedTimespan(0, 0, Some(<<"G", "M", "T">>))>>,
        <<-369266400, FixedTimespan(0, 3600, Some(<<"B", "S", "T">>))>>,
        <<-354751200, FixedTimespan(0, 0, Some(<<"G", "M", "T">>))>>,
        <<-337816800, FixedTimespan(0, 3600, Some(<<"B", "S", "T">>))>>,
        <<-323301600, FixedTimespan(0, 0, Some(<<"G", "M", "T">>))>>,
        <<-306972000, FixedTimespan(0, 3600, Some(<<"B", "S", "T">>))>>,
        <<-291852000, FixedTimespan(0, 0, Some(<<"G", "M", "T">>))>>,
        <<-276732000, FixedTimespan(0, 3600, Some(<<"B", "S", "T">>))>>,
        <<-257983200, FixedTimespan(0, 0, Some(<<"G", "M", "T">>))>>,
        <<-245282400, FixedTimespan(0, 3600, Some(<<"B", "S", "T">>))>>,
        <<-226533600, FixedTimespan(0, 0, Some(<<"G", "M", "T">>))>>,
        <<-213228000, FixedTimespan(0, 3600, Some(<<"B", "S", "T">>))>>,
        <<-195084000, FixedTimespan(0, 0, Some(<<"G", "M", "T">>))>>,
        <<-182383200, FixedTimespan(0, 3600, Some(<<"B", "S", "T">>))>>,
        <<-163634400, FixedTimespan(0, 0, Some(<<"G", "M", "T">>))>>,
        <<-150933600, FixedTimespan(0, 3600, Some(<<"B", "S", "T">>))>>,
        <<-132184800, FixedTimespan(0, 0, Some(<<"G", "M", "T">>))>>,
        <<-119484000, FixedTimespan(0, 3600, Some(<<"B", "S", "T">>))>>,
        <<-100735200, FixedTimespan(0, 0, Some(<<"G", "M", "T">>))>>,
        <<-88034400, FixedTimespan(0, 3600, Some(<<"B", "S", "T">>))>>,
        <<-68680800, FixedTimespan(0, 0, Some(<<"G", "M", "T">>))>>,
        <<-59004000, FixedTimespan(0, 3600, Some(<<"B", "S", "T">>))>>,
        <<-37242000, FixedTimespan(3600, 0, Some(<<"B", "S", "T">>))>>,
        <<57722400, FixedTimespan(0, 0, Some(<<"G", "M", "T">>))>>,
        <<69818400, FixedTimespan(0, 3600, Some(<<"B", "S", "T">>))>>,
        <<89172000, FixedTimespan(0, 0, Some(<<"G", "M", "T">>))>>,
        <<101268000, FixedTimespan(0, 3600, Some(<<"B", "S", "T">>))>>,
        <<120621600, FixedTimespan(0, 0, Some(<<"G", "M", "T">>))>>,
        <<132717600, FixedTimespan(0, 3600, Some(<<"B", "S", "T">>))>>,
        <<152071200, FixedTimespan(0, 0, Some(<<"G", "M", "T">>))>>,
        <<164167200, FixedTimespan(0, 3600, Some(<<"B", "S", "T">>))>>,
        <<183520800, FixedTimespan(0, 0, Some(<<"G", "M", "T">>))>>,
        <<196221600, FixedTimespan(0, 3600, Some(<<"B", "S", "T">>))>>,
        <<214970400, FixedTimespan(0, 0, Some(<<"G", "M", "T">>))>>,
        <<227671200, FixedTimespan(0, 3600, Some(<<"B", "S", "T">>))>>,
        <<246420000, FixedTimespan(0, 0, Some(<<"G", "M", "T">>))>>,
        <<259120800, FixedTimespan(0, 3600, Some(<<"B", "S", "T">>))>>,
        <<278474400, FixedTimespan(0, 0, Some(<<"G", "M", "T">>))>>,
        <<290570400, FixedTimespan(0, 3600, Some(<<"B", "S", "T">>))>>,
        <<309924000, FixedTimespan(0, 0, Some(<<"G", "M", "T">>))>>,
        <<322020000, FixedTimespan(0, 3600, Some(<<"B", "S", "T">>))>>,
        <<341373600, FixedTimespan(0, 0, Some(<<"G", "M", "T">>))>>,
        <<354675600, FixedTimespan(0, 3600, Some(<<"B", "S", "T">>))>>,
        <<372819600, FixedTimespan(0, 0, Some(<<"G", "M", "T">>))>>,
        <<386125200, FixedTimespan(0, 3600, Some(<<"B", "S", "T">>))>>,
        <<404269200, FixedTimespan(0, 0, Some(<<"G", "M", "T">>))>>,
        <<417574800, FixedTimespan(0, 3600, Some(<<"B", "S", "T">>))>>,
        <<435718800, FixedTimespan(0, 0, Some(<<"G", "M", "T">>))>>,
        <<449024400, FixedTimespan(0, 3600, Some(<<"B", "S", "T">>))>>,
        <<467773200, FixedTimespan(0, 0, Some(<<"G", "M", "T">>))>>,
        <<481078800, FixedTimespan(0, 3600, Some(<<"B", "S", "T">>))>>,
        <<499222800, FixedTimespan(0, 0, Some(<<"G", "M", "T">>))>>,
        <<512528400, FixedTimespan(0, 3600, Some(<<"B", "S", "T">>))>>,
        <<530672400, FixedTimespan(0, 0, Some(<<"G", "M", "T">>))>>,
        <<543978000, FixedTimespan(0, 3600, Some(<<"B", "S", "T">>))>>,
        <<562122000, FixedTimespan(0, 0, Some(<<"G", "M", "T">>))>>,
        <<575427600, FixedTimespan(0, 3600, Some(<<"B", "S", "T">>))>>,
        <<593571600, FixedTimespan(0, 0, Some(<<"G", "M", "T">>))>>,
        <<606877200, FixedTimespan(0, 3600, Some(<<"B", "S", "T">>))>>,
        <<625626000, FixedTimespan(0, 0, Some(<<"G", "M", "T">>))>>,
        <<638326800, FixedTimespan(0, 3600, Some(<<"B", "S", "T">>))>>,
        <<657075600, FixedTimespan(0, 0, Some(<<"G", "M", "T">>))>>,
        <<670381200, FixedTimespan(0, 3600, Some(<<"B", "S", "T">>))>>,
        <<688525200, FixedTimespan(0, 0, Some(<<"G", "M", "T">>))>>,
        <<701830800, FixedTimespan(0, 3600, Some(<<"B", "S", "T">>))>>,
        <<719974800, FixedTimespan(0, 0, Some(<<"G", "M", "T">>))>>,
        <<733280400, FixedTimespan(0, 3600, Some(<<"B", "S", "T">>))>>,
        <<751424400, FixedTimespan(0, 0, Some(<<"G", "M", "T">>))>>,
        <<764730000, FixedTimespan(0, 3600, Some(<<"B", "S", "T">>))>>,
        <<782874000, FixedTimespan(0, 0, Some(<<"G", "M", "T">>))>>,
        <<796179600, FixedTimespan(0, 3600, Some(<<"B", "S", "T">>))>>,
        <<814323600, FixedTimespan(0, 0, Some(<<"G", "M", "T">>))>>,
        <<828234000, FixedTimespan(0, 3600, Some(<<"B", "S", "T">>))>>,
        <<846378000, FixedTimespan(0, 0, Some(<<"G", "M", "T">>))>>,
        <<859683600, FixedTimespan(0, 3600, Some(<<"B", "S", "T">>))>>,
        <<877827600, FixedTimespan(0, 0, Some(<<"G", "M", "T">>))>>,
        <<891133200, FixedTimespan(0, 3600, Some(<<"B", "S", "T">>))>>,
        <<909277200, FixedTimespan(0, 0, Some(<<"G", "M", "T">>))>>,
        <<922582800, FixedTimespan(0, 3600, Some(<<"B", "S", "T">>))>>,
        <<941331600, FixedTimespan(0, 0, Some(<<"G", "M", "T">>))>>,
        <<954032400, FixedTimespan(0, 3600, Some(<<"B", "S", "T">>))>>,
        <<972781200, FixedTimespan(0, 0, Some(<<"G", "M", "T">>))>>,
        <<985482000, FixedTimespan(0, 3600, Some(<<"B", "S", "T">>))>>,
        <<1004230800, FixedTimespan(0, 0, Some(<<"G", "M", "T">>))>>,
        <<1017536400, FixedTimespan(0, 3600, Some(<<"B", "S", "T">>))>>,
        <<1035680400, FixedTimespan(0, 0, Some(<<"G", "M", "T">>))>>,
        <<1048986000, FixedTimespan(0, 3600, Some(<<"B", "S", "T">>))>>,
        <<1067130000, FixedTimespan(0, 0, Some(<<"G", "M", "T">>))>>,
        <<1080435600, FixedTimespan(0, 3600, Some(<<"B", "S", "T">>))>>,
        <<1099184400, FixedTimespan(0, 0, Some(<<"G", "M", "T">>))>>,
        <<1111885200, FixedTimespan(0, 3600, Some(<<"B", "S", "T">>))>>,
        <<1130634000, FixedTimespan(0, 0, Some(<<"G", "M", "T">>))>>,
        <<1143334800, FixedTimespan(0, 3600, Some(<<"B", "S", "T">>))>>,
        <<1162083600, FixedTimespan(0, 0, Some(<<"G", "M", "T">>))>>,
        <<1174784400, FixedTimespan(0, 3600, Some(<<"B", "S", "T">>))>>,
        <<1193533200, FixedTimespan(0, 0, Some(<<"G", "M", "T">>))>>,
        <<1206838800, FixedTimespan(0, 3600, Some(<<"B", "S", "T">>))>>,
        <<1224982800, FixedTimespan(0, 0, Some(<<"G", "M", "T">>))>>,
        <<1238288400, FixedTimespan(0, 3600, Some(<<"B", "S", "T">>))>>,
        <<1256432400, FixedTimespan(0, 0, Some(<<"G", "M", "T">>))>>,
        <<1269738000, FixedTimespan(0, 3600, Some(<<"B", "S", "T">>))>>,
        <<1288486800, FixedTimespan(0, 0, Some(<<"G", "M", "T">>))>>,
        <<1301187600, FixedTimespan(0, 3600, Some(<<"B", "S", "T">>))>>,
        <<1319936400, FixedTimespan(0, 0, Some(<<"G", "M", "T">>))>>,
        <<1332637200, FixedTimespan(0, 3600, Some(<<"B", "S", "T">>))>>,
        <<1351386000, FixedTimespan(0, 0, Some(<<"G", "M", "T">>))>>,
        <<1364691600, FixedTimespan(0, 3600, Some(<<"B", "S", "T">>))>>,
        <<1382835600, FixedTimespan(0, 0, Some(<<"G", "M", "T">>))>>,
        <<1396141200, FixedTimespan(0, 3600, Some(<<"B", "S", "T">>))>>,
        <<1414285200, FixedTimespan(0, 0, Some(<<"G", "M", "T">>))>>,
        <<1427590800, FixedTimespan(0, 3600, Some(<<"B", "S", "T">>))>>,
        <<1445734800, FixedTimespan(0, 0, Some(<<"G", "M", "T">>))>>,
        <<1459040400, FixedTimespan(0, 3600, Some(<<"B", "S", "T">>))>>,
        <<1477789200, FixedTimespan(0, 0, Some(<<"G", "M", "T">>))>>,
        <<1490490000, FixedTimespan(0, 3600, Some(<<"B", "S", "T">>))>>,
        <<1509238800, FixedTimespan(0, 0, Some(<<"G", "M", "T">>))>>,
        <<1521939600, FixedTimespan(0, 3600, Some(<<"B", "S", "T">>))>>,
        <<1540688400, FixedTimespan(0, 0, Some(<<"G", "M", "T">>))>>,
        <<1553994000, FixedTimespan(0, 3600, Some(<<"B", "S", "T">>))>>,
        <<1572138000, FixedTimespan(0, 0, Some(<<"G", "M", "T">>))>>,
        <<1585443600, FixedTimespan(0, 3600, Some(<<"B", "S", "T">>))>>,
        <<1603587600, FixedTimespan(0, 0, Some(<<"G", "M", "T">>))>>,
        <<1616893200, FixedTimespan(0, 3600, Some(<<"B", "S", "T">>))>>,
        <<1635642000, FixedTimespan(0, 0, Some(<<"G", "M", "T">>))>>,
        <<1648342800, FixedTimespan(0, 3600, Some(<<"B", "S", "T">>))>>,
        <<1667091600, FixedTimespan(0, 0, Some(<<"G", "M", "T">>))>>,
        <<1679792400, FixedTimespan(0, 3600, Some(<<"B", "S", "T">>))>>,
        <<1698541200, FixedTimespan(0, 0, Some(<<"G", "M", "T">>))>>,
        <<1711846800, FixedTimespan(0, 3600, Some(<<"B", "S", "T">>))>>,
        <<1729990800, FixedTimespan(0, 0, Some(<<"G", "M", "T">>))>>,
        <<1743296400, FixedTimespan(0, 3600, Some(<<"B", "S", "T">>))>>,
        <<1761440400, FixedTimespan(0, 0, Some(<<"G", "M", "T">>))>>,
        <<1774746000, FixedTimespan(0, 3600, Some(<<"B", "S", "T">>))>>,
        <<1792890000, FixedTimespan(0, 0, Some(<<"G", "M", "T">>))>>,
        <<1806195600, FixedTimespan(0, 3600, Some(<<"B", "S", "T">>))>>,
        <<1824944400, FixedTimespan(0, 0, Some(<<"G", "M", "T">>))>>,
        <<1837645200, FixedTimespan(0, 3600, Some(<<"B", "S", "T">>))>>,
        <<1856394000, FixedTimespan(0, 0, Some(<<"G", "M", "T">>))>>,
        <<1869094800, FixedTimespan(0, 3600, Some(<<"B", "S", "T">>))>>,
        <<1887843600, FixedTimespan(0, 0, Some(<<"G", "M", "T">>))>>,
        <<1901149200, FixedTimespan(0, 3600, Some(<<"B", "S", "T">>))>>,
        <<1919293200, FixedTimespan(0, 0, Some(<<"G", "M", "T">>))>>,
        <<1932598800, FixedTimespan(0, 3600, Some(<<"B", "S", "T">>))>>,
        <<1950742800, FixedTimespan(0, 0, Some(<<"G", "M", "T">>))>>,
        <<1964048400, FixedTimespan(0, 3600, Some(<<"B", "S", "T">>))>>,
        <<1982797200, FixedTimespan(0, 0, Some(<<"G", "M", "T">>))>>,
        <<1995498000, FixedTimespan(0, 3600, Some(<<"B", "S", "T">>))>>,
        <<2014246800, FixedTimespan(0, 0, Some(<<"G", "M", "T">>))>>,
        <<2026947600, FixedTimespan(0, 3600, Some(<<"B", "S", "T">>))>>,
        <<2045696400, FixedTimespan(0, 0, Some(<<"G", "M", "T">>))>>,
        <<2058397200, FixedTimespan(0, 3600, Some(<<"B", "S", "T">>))>>,
        <<2077146000, FixedTimespan(0, 0, Some(<<"G", "M", "T">>))>>,
        <<2090451600, FixedTimespan(0, 3600, Some(<<"B", "S", "T">>))>>,
        <<2108595600, FixedTimespan(0, 0, Some(<<"G", "M", "T">>))>>,
        <<2121901200, FixedTimespan(0, 3600, Some(<<"B", "S", "T">>))>>,
        <<2140045200, FixedTimespan(0, 0, Some(<<"G", "M", "T">>))>> >>]

\* Europe/Paris: the span in force at second -2^31 and the transitions after it.
Timespans_Europe__Paris ==
    [first |-> FixedTimespan(561, 0, Some(<<"P", "M", "T">>)),
     rest |-> <<
        <<-1855958961, FixedTimespan(0, 0, Some(<<"W", "E", "T">>))>>,
        <<-1689814800, FixedTimespan(0, 3600, Some(<<"W", "E", "S", "T">>))>>,
        <<-1680397200, FixedTimespan(0, 0, Some(<<"W", "E", "T">>))>>,
        <<-1665363600, FixedTimespan(0, 3600, Some(<<"W", "E", "S", "T">>))>>,
        <<-1648342800, FixedTimespan(0, 0, Some(<<"W", "E", "T">>))>>,
        <<-1635123600, FixedTimespan(0, 3600, Some(<<"W", "E", "S", "T">>))>>,
        <<-1616893200, FixedTimespan(0, 0, Some(<<"W", "E", "T">>))>>,
        <<-1604278800, FixedTimespan(0, 3600, Some(<<"W", "E", "S", "T">>))>>,
        <<-1585443600, FixedTimespan(0, 0, Some(<<"W", "E", "T">>))>>,
        <<-1574038800, FixedTimespan(0, 3600, Some(<<"W", "E", "S", "T">>))>>,
        <<-1552266000, FixedTimespan(0, 0, Some(<<"W", "E", "T">>))>>,
        <<-1539997200, FixedTimespan(0, 3600, Some(<<"W", "E", "S", "T">>))>>,
        <<-1520557200, FixedTimespan(0, 0, Some(<<"W", "E", "T">>))>>,
        <<-1507510800, FixedTimespan(0, 3600, Some(<<"W", "E", "S", "T">>))>>,
        <<-1490576400, FixedTimespan(0, 0, Some(<<"W", "E", "T">>))>>,
        <<-1470618000, FixedTimespan(0, 3600, Some(<<"W", "E", "S", "T">>))>>,
        <<-1459126800, FixedTimespan(0, 0, Some(<<"W", "E", "T">>))>>,
        <<-1444006800, FixedTimespan(0, 3600, Some(<<"W", "E", "S", "T">>))>>,
        <<-1427677200, FixedTimespan(0, 0, Some(<<"W", "E", "T">>))>>,
        <<-1411952400, FixedTimespan(0, 3600, Some(<<"W", "E", "S", "T">>))>>,
        <<-1396227600, FixedTimespan(0, 0, Some(<<"W", "E", "T">>))>>,
        <<-1379293200, FixedTimespan(0, 3600, Some(<<"W", "E", "S", "T">>))>>,
        <<-1364778000, FixedTimespan(0, 0, Some(<<"W", "E", "T">>))>>,
        <<-1348448400, FixedTimespan(0, 3600, Some(<<"W", "E", "S", "T">>))>>,
        <<-1333328400, FixedTimespan(0, 0, Some(<<"W", "E", "T">>))>>,
        <<-1316394000, FixedTimespan(0, 3600, Some(<<"W", "E", "S", "T">>))>>,
        <<-1301274000, FixedTimespan(0, 0, Some(<<"W", "E", "T">>))>>,
        <<-1284339600, FixedTimespan(0, 3600, Some(<<"W", "E", "S", "T">>))>>,
        <<-1269824400, FixedTimespan(0, 0, Some(<<"W", "E", "T">>))>>,
        <<-1253494800, FixedTimespan(0, 3600, Some(<<"W", "E", "S", "T">>))>>,
        <<-1238374800, FixedTimespan(0, 0, Some(<<"W", "E", "T">>))>>,
        <<-1221440400, FixedTimespan(0, 3600, Some(<<"W", "E", "S", "T">>))>>,
        <<-1206925200, FixedTimespan(0, 0, Some(<<"W", "E", "T">>))>>,
        <<-1191200400, FixedTimespan(0, 3600, Some(<<"W", "E", "S", "T">>))>>,
        <<-1175475600, FixedTimespan(0, 0, Some(<<"W", "E", "T">>))>>,
        <<-1160355600, FixedTimespan(0, 3600, Some(<<"W", "E", "S", "T">>))>>,
        <<-1143421200, FixedTimespan(0, 0, Some(<<"W", "E", "T">>))>>,
        <<-1127696400, FixedTimespan(0, 3600, Some(<<"W", "E", "S", "T">>))>>,
        <<-1111971600, FixedTimespan(0, 0, Some(<<"W", "E", "T">>))>>,
        <<-1096851600, FixedTimespan(0, 3600, Some(<<"W", "E", "S", "T">>))>>,
        <<-1080522000, FixedTimespan(0, 0, Some(<<"W", "E", "T">>))>>,
        <<-1063587600, FixedTimespan(0, 3600, Some(<<"W", "E", "S", "T">>))>>,
        <<-1049072400, FixedTimespan(0, 0, Some(<<"W", "E", "T">>))>>,
        <<-1033347600, FixedTimespan(0, 3600, Some(<<"W", "E", "S", "T">>))>>,
        <<-1017622800, FixedTimespan(0, 0, Some(<<"W", "E", "T">>))>>,
        <<-1002502800, FixedTimespan(0, 3600, Some(<<"W", "E", "S", "T">>))>>,
        <<-986173200, FixedTimespan(0, 0, Some(<<"W", "E", "T">>))>>,
        <<-969238800, FixedTimespan(0, 3600, Some(<<"W", "E", "S", "T">>))>>,
        <<-950490000, FixedTimespan(0, 0, Some(<<"W", "E", "T">>))>>,
        <<-942012000, FixedTimespan(0, 3600, Some(<<"W", "E", "S", "T">>))>>,
        <<-932436000, FixedTimespan(3600, 3600, Some(<<"C", "E", "S", "T">>))>>,
        <<-857257200, FixedTimespan(3600, 0, Some(<<"C", "E", "T">>))>>,
        <<-844556400, FixedTimespan(3600, 3600, Some(<<"C", "E", "S", "T">>))>>,
        <<-828226800, FixedTimespan(3600, 0, Some(<<"C", "E", "T">>))>>,
        <<-812502000, FixedTimespan(3600, 3600, Some(<<"C", "E", "S", "T">>))>>,
        <<-800071200, FixedTimespan(0, 7200, Some(<<"W", "E", "M", "T">>))>>,
        <<-796266000, FixedTimespan(0, 3600, Some(<<"W", "E", "S", "T">>))>>,
        <<-781052400, FixedTimespan(0, 7200, Some(<<"W", "E", "M", "T">>))>>,
        <<-766623600, FixedTimespan(3600, 0, Some(<<"C", "E", "T">>))>>,
        <<196819200, FixedTimespan(3600, 3600, Some(<<"C", "E", "S", "T">>))>>,
        <<212540400, FixedTimespan(3600, 0, Some(<<"C", "E", "T">>))>>,
        <<228877200, FixedTimespan(3600, 3600, Some(<<"C", "E", "S", "T">>))>>,
        <<243997200, FixedTimespan(3600, 0, Some(<<"C", "E", "T">>))>>,
        <<260326800, FixedTimespan(3600, 3600, Some(<<"C", "E", "S", "T">>))>>,
        <<276051600, FixedTimespan(3600, 0, Some(<<"C", "E", "T">>))>>,
        <<291776400, FixedTimespan(3600, 3600, Some(<<"C", "E", "S", "T">>))>>,
        <<307501200, FixedTimespan(3600, 0, Some(<<"C", "E", "T">>))>>,
        <<323830800, FixedTimespan(3600, 3600, Some(<<"C", "E", "S", "T">>))>>,
        <<338950800, FixedTimespan(3600, 0, Some(<<"C", "E", "T">>))>>,
        <<354675600, FixedTimespan(3600, 3600, Some(<<"C", "E", "S", "T">>))>>,
        <<370400400, FixedTimespan(3600, 0, Some(<<"C", "E", "T">>))>>,
        <<386125200, FixedTimespan(3600, 3600, Some(<<"C", "E", "S", "T">>))>>,
        <<401850000, FixedTimespan(3600, 0, Some(<<"C", "E", "T">>))>>,
        <<417574800, FixedTimespan(3600, 3600, Some(<<"C", "E", "S", "T">>))>>,
        <<433299600, FixedTimespan(3600, 0, Some(<<"C", "E", "T">>))>>,
        <<449024400, FixedTimespan(3600, 3600, Some(<<"C", "E", "S", "T">>))>>,
        <<465354000, FixedTimespan(3600, 0, Some(<<"C", "E", "T">>))>>,
        <<481078800, FixedTimespan(3600, 3600, Some(<<"C", "E", "S", "T">>))>>,
        <<496803600, FixedTimespan(3600, 0, Some(<<"C", "E", "T">>))>>,
        <<512528400, FixedTimespan(3600, 3600, Some(<<"C", "E", "S", "T">>))>>,
        <<528253200, FixedTimespan(3600, 0, Some(<<"C", "E", "T">>))>>,
        <<543978000, FixedTimespan(3600, 3600, Some(<<"C", "E", "S", "T">>))>>,
        <<559702800, FixedTimespan(3600, 0, Some(<<"C", "E", "T">>))>>,
        <<575427600, FixedTimespan(3600, 3600, Some(<<"C", "E", "S", "T">>))>>,
        <<591152400, FixedTimespan(3600, 0, Some(<<"C", "E", "T">>))>>,
        <<606877200, FixedTimespan(3600, 3600, Some(<<"C", "E", "S", "T">>))>>,
        <<622602000, FixedTimespan(3600, 0, Some(<<"C", "E", "T">>))>>,
        <<638326800, FixedTimespan(3600, 3600, Some(<<"C", "E", "S", "T">>))>>,
        <<654656400, FixedTimespan(3600, 0, Some(<<"C", "E", "T">>))>>,
        <<670381200, FixedTimespan(3600, 3600, Some(<<"C", "E", "S", "T">>))>>,
        <<686106000, FixedTimespan(3600, 0, Some(<<"C", "E", "T">>))>>,
        <<701830800, FixedTimespan(3600, 3600, Some(<<"C", "E", "S", "T">>))>>,
        <<717555600, FixedTimespan(3600, 0, Some(<<"C", "E", "T">>))>>,
        <<733280400, FixedTimespan(3600, 3600, Some(<<"C", "E", "S", "T">>))>>,
        <<749005200, FixedTimespan(3600, 0, Some(<<"C", "E", "T">>))>>,
        <<764730000, FixedTimespan(3600, 3600, Some(<<"C", "E", "S", "T">>))>>,
        <<780454800, FixedTimespan(3600, 0, Some(<<"C", "E", "T">>))>>,
        <<796179600, FixedTimespan(3600, 3600, Some(<<"C", "E", "S", "T">>))>>,
        <<811904400, FixedTimespan(3600, 0, Some(<<"C", "E", "T">>))>>,
        <<828234000, FixedTimespan(3600, 3600, Some(<<"C", "E", "S", "T">>))>>,
        <<846378000, FixedTimespan(3600, 0, Some(<<"C", "E", "T">>))>>,
        <<859683600, FixedTimespan(3600, 3600, Some(<<"C", "E", "S", "T">>))>>,
        <<877827600, FixedTimespan(3600, 0, Some(<<"C", "E", "T">>))>>,
        <<891133200, FixedTimespan(3600, 3600, Some(<<"C", "E", "S", "T">>))>>,
        <<909277200, FixedTimespan(3600, 0, Some(<<"C", "E", "T">>))>>,
        <<922582800, FixedTimespan(3600, 3600, Some(<<"C", "E", "S", "T">>))>>,
        <<941331600, FixedTimespan(3600, 0, Some(<<"C", "E", "T">>))>>,
        <<954032400, FixedTimespan(3600, 3600, Some(<<"C", "E", "S", "T">>))>>,
        <<972781200, FixedTimespan(3600, 0, Some(<<"C", "E", "T">>))>>,
        <<985482000, FixedTimespan(3600, 3600, Some(<<"C", "E", "S", "T">>))>>,
        <<1004230800, FixedTimespan(3600, 0, Some(<<"C", "E", "T">>))>>,
        <<1017536400, FixedTimespan(3600, 3600, Some(<<"C", "E", "S", "T">>))>>,
        <<1035680400, FixedTimespan(3600, 0, Some(<<"C", "E", "T">>))>>,
        <<1048986000, FixedTimespan(3600, 3600, Some(<<"C", "E", "S", "T">>))>>,
        <<1067130000, FixedTimespan(3600, 0, Some(<<"C", "E", "T">>))>>,
        <<1080435600, FixedTimespan(3600, 3600, Some(<<"C", "E", "S", "T">>))>>,
        <<1099184400, FixedTimespan(3600, 0, Some(<<"C", "E", "T">>))>>,
        <<1111885200, FixedTimespan(3600, 3600, Some(<<"C", "E", "S", "T">>))>>,
        <<1130634000, FixedTimespan(3600, 0, Some(<<"C", "E", "T">>))>>,
        <<1143334800, FixedTimespan(3600, 3600, Some(<<"C", "E", "S", "T">>))>>,
        <<1162083600, FixedTimespan(3600, 0, Some(<<"C", "E", "T">>))>>,
        <<1174784400, FixedTimespan(3600, 3600, Some(<<"C", "E", "S", "T">>))>>,
        <<1193533200, FixedTimespan(3600, 0, Some(<<"C", "E", "T">>))>>,
        <<1206838800, FixedTimespan(3600, 3600, Some(<<"C", "E", "S", "T">>))>>,
        <<1224982800, FixedTimespan(3600, 0, Some(<<"C", "E", "T">>))>>,
        <<1238288400, FixedTimespan(3600, 3600, Some(<<"C", "E", "S", "T">>))>>,
        <<1256432400, FixedTimespan(3600, 0, Some(<<"C", "E", "T">>))>>,
        <<1269738000, FixedTimespan(3600, 3600, Some(<<"C", "E", "S", "T">>))>>,
        <<1288486800, FixedTimespan(3600, 0, Some(<<"C", "E", "T">>))>>,
        <<1301187600, FixedTimespan(3600, 3600, Some(<<"C", "E", "S", "T">>))>>,
        <<1319936400, FixedTimespan(3600, 0, Some(<<"C", "E", "T">>))>>,
        <<1332637200, FixedTimespan(3600, 3600, Some(<<"C", "E", "S", "T">>))>>,
        <<1351386000, FixedTimespan(3600, 0, Some(<<"C", "E", "T">>))>>,
        <<1364691600, FixedTimespan(3600, 3600, Some(<<"C", "E", "S", "T">>))>>,
        <<1382835600, FixedTimespan(3600, 0, Some(<<"C", "E", "T">>))>>,
        <<1396141200, FixedTimespan(3600, 3600, Some(<<"C", "E", "S", "T">>))>>,
        <<1414285200, FixedTimespan(3600, 0, Some(<<"C", "E", "T">>))>>,
        <<1427590800, FixedTimespan(3600, 3600, Some(<<"C", "E", "S", "T">>))>>,
        <<1445734800, FixedTimespan(3600, 0, Some(<<"C", "E", "T">>))>>,
        <<1459040400, FixedTimespan(3600, 3600, Some(<<"C", "E", "S", "T">>))>>,
        <<1477789200, FixedTimespan(3600, 0, Some(<<"C", "E", "T">>))>>,
        <<1490490000, FixedTimespan(3600, 3600, Some(<<"C", "E", "S", "T">>))>>,
        <<1509238800, FixedTimespan(3600, 0, Some(<<"C", "E", "T">>))>>,
        <<1521939600, FixedTimespan(3600, 3600, Some(<<"C", "E", "S", "T">>))>>,
        <<1540688400, FixedTimespan(3600, 0, Some(<<"C", "E", "T">>))>>,
        <<1553994000, FixedTimespan(3600, 3600, Some(<<"C", "E", "S", "T">>))>>,
        <<1572138000, FixedTimespan(3600, 0, Some(<<"C", "E", "T">>))>>,
        <<1585443600, FixedTimespan(3600, 3600, Some(<<"C", "E", "S", "T">>))>>,
        <<1603587600, FixedTimespan(3600, 0, Some(<<"C", "E", "T">>))>>,
        <<1616893200, FixedTimespan(3600, 3600, Some(<<"C", "E", "S", "T">>))>>,
        <<1635642000, FixedTimespan(3600, 0, Some(<<"C", "E", "T">>))>>,
        <<1648342800, FixedTimespan(3600, 3600, Some(<<"C", "E", "S", "T">>))>>,
        <<1667091600, FixedTimespan(3600, 0, Some(<<"C", "E", "T">>))>>,
        <<1679792400, FixedTimespan(3600, 3600, Some(<<"C", "E", "S", "T">>))>>,
        <<1698541200, FixedTimespan(3600, 0, Some(<<"C", "E", "T">>))>>,
        <<1711846800, FixedTimespan(3600, 3600, Some(<<"C", "E", "S", "T">>))>>,
        <<1729990800, FixedTimespan(3600, 0, Some(<<"C", "E", "T">>))>>,
        <<1743296400, FixedTimespan(3600, 3600, Some(<<"C", "E", "S", "T">>))>>,
        <<1761440400, FixedTimespan(3600, 0, Some(<<"C", "E", "T">>))>>,
        <<1774746000, FixedTimespan(3600, 3600, Some(<<"C", "E", "S", "T">>))>>,
        <<1792890000, FixedTimespan(3600, 0, Some(<<"C", "E", "T">>))>>,
        <<1806195600, FixedTimespan(3600, 3600, Some(<<"C", "E", "S", "T">>))>>,
        <<1824944400, FixedTimespan(3600, 0, Some(<<"C", "E", "T">>))>>,
        <<1837645200, FixedTimespan(3600, 3600, Some(<<"C", "E", "S", "T">>))>>,
        <<1856394000, FixedTimespan(3600, 0, Some(<<"C", "E", "T">>))>>,
        <<1869094800, FixedTimespan(3600, 3600, Some(<<"C", "E", "S", "T">>))>>,
        <<1887843600, FixedTimespan(3600, 0, Some(<<"C", "E", "T">>))>>,
        <<1901149200, FixedTimespan(3600, 3600, Some(<<"C", "E", "S", "T">>))>>,
        <<1919293200, FixedTimespan(3600, 0, Some(<<"C", "E", "T">>))>>,
        <<1932598800, FixedTimespan(3600, 3600, Some(<<"C", "E", "S", "T">>))>>,
        <<1950742800, FixedTimespan(3600, 0, Some(<<"C", "E", "T">>))>>,
        <<1964048400, FixedTimespan(3600, 3600, Some(<<"C", "E", "S", "T">>))>>,
        <<1982797200, FixedTimespan(3600, 0, Some(<<"C", "E", "T">>))>>,
        <<1995498000, FixedTimespan(3600, 3600, Some(<<"C", "E", "S", "T">>))>>,
        <<2014246800, FixedTimespan(3600, 0, Some(<<"C", "E", "T">>))>>,
        <<2026947600, FixedTimespan(3600, 3600, Some(<<"C", "E", "S", "T">>))>>,
        <<2045696400, FixedTimespan(3600, 0, Some(<<"C", "E", "T">>))>>,
        <<2058397200, FixedTimespan(3600, 3600, Some(<<"C", "E", "S", "T">>))>>,
        <<2077146000, FixedTimespan(3600, 0, Some(<<"C", "E", "T">>))>>,
        <<2090451600, FixedTimespan(3600, 3600, Some(<<"C", "E", "S", "T">>))>>,
        <<2108595600, FixedTimespan(3600, 0, Some(<<"C", "E", "T">>))>>,
        <<2121901200, FixedTimespan(3600, 3600, Some(<<"C", "E", "S", "T">>))>>,
        <<2140045200, FixedTimespan(3600, 0, Some(<<"C", "E", "T">>))>> >>]

\* Africa/Kampala: the span in force at second -2^31 and the transitions after it.
Timespans_Africa__Kampala ==
    [first |-> FixedTimespan(8836, 0, Some(<<"L", "M", "T">>)),
     rest |-> <<
        <<-1946168836, FixedTimespan(9000, 0, None)>>,
        <<-1309746600, FixedTimespan(10800, 0, Some(<<"E", "A", "T">>))>>,
        <<-1261969200, FixedTimespan(9000, 0, None)>>,
        <<-1041388200, FixedTimespan(9900, 0, None)>>,
        <<-865305900, FixedTimespan(10800, 0, Some(<<"E", "A", "T">>))>> >>]

\* Asia/Kolkata: the span in force at second -2^31 and the transitions after it.
Timespans_Asia__Kolkata ==
    [first |-> FixedTimespan(19270, 0, Some(<<"M", "M", "T">>)),
     rest |-> <<
        <<-2019705670, FixedTimespan(19800, 0, Some(<<"I", "S", "T">>))>>,
        <<-891581400, FixedTimespan(19800, 3600, None)>>,
        <<-872058600, FixedTimespan(19800, 0, Some(<<"I", "S", "T">>))>>,
        <<-862637400, FixedTimespan(19800, 3600, None)>>,
        <<-764145000, FixedTimespan(19800, 0, Some(<<"I", "S", "T">>))>> >>]

\* Asia/Kathmandu: the span in force at second -2^31 and the transitions after it.
Timespans_Asia__Kathmandu ==
    [first |-> FixedTimespan(20476, 0, Some(<<"L", "M", "T">>)),
     rest |-> <<
        <<-1577943676, FixedTimespan(19800, 0, None)>>,
        <<504901800, FixedTimespan(20700, 0, None)>> >>]

\* Australia/Sydney: the span in force at second -2^31 and the transitions after it.
Timespans_Australia__Sydney ==
    [first |-> FixedTimespan(36000, 0, Some(<<"A", "E", "S", "T">>)),
     rest |-> <<
        <<-1672560000, FixedTimespan(36000, 3600, Some(<<"A", "E", "D", "T">>))>>,
        <<-1665388800, FixedTimespan(36000, 0, Some(<<"A", "E", "S", "T">>))>>,
        <<-883641600, FixedTimespan(36000, 3600, Some(<<"A", "E", "D", "T">>))>>,
        <<-876124800, FixedTimespan(36000, 0, Some(<<"A", "E", "S", "T">>))>>,
        <<-860400000, FixedTimespan(36000, 3600, Some(<<"A", "E", "D", "T">>))>>,
        <<-844675200, FixedTimespan(36000, 0, Some(<<"A", "E", "S", "T">>))>>,
        <<-828345600, FixedTimespan(36000, 3600, Some(<<"A", "E", "D", "T">>))>>,
        <<-813225600, FixedTimespan(36000, 0, Some(<<"A", "E", "S", "T">>))>>,
        <<57686400, FixedTimespan(36000, 3600, Some(<<"A", "E", "D", "T">>))>>,
        <<67968000, FixedTimespan(36000, 0, Some(<<"A", "E", "S", "T">>))>>,
        <<89136000, FixedTimespan(36000, 3600, Some(<<"A", "E", "D", "T">>))>>,
        <<100022400, FixedTimespan(36000, 0, Some(<<"A", "E", "S", "T">>))>>,
        <<120585600, FixedTimespan(36000, 3600, Some(<<"A", "E", "D", "T">>))>>,
        <<131472000, FixedTimespan(36000, 0, Some(<<"A", "E", "S", "T">>))>>,
        <<152035200, FixedTimespan(36000, 3600, Some(<<"A", "E", "D", "T">>))>>,
        <<162921600, FixedTimespan(36000, 0, Some(<<"A", "E", "S", "T">>))>>,
        <<183484800, FixedTimespan(36000, 3600, Some(<<"A", "E", "D", "T">>))>>,
        <<194976000, FixedTimespan(36000, 0, Some(<<"A", "E", "S", "T">>))>>,
        <<215539200, FixedTimespan(36000, 3600, Some(<<"A", "E", "D", "T">>))>>,
        <<226425600, FixedTimespan(36000, 0, Some(<<"A", "E", "S", "T">>))>>,
        <<246988800, FixedTimespan(36000, 3600, Some(<<"A", "E", "D", "T">>))>>,
        <<257875200, FixedTimespan(36000, 0, Some(<<"A", "E", "S", "T">>))>>,
        <<278438400, FixedTimespan(36000, 3600, Some(<<"A", "E", "D", "T">>))>>,
        <<289324800, FixedTimespan(36000, 0, Some(<<"A", "E", "S", "T">>))>>,
        <<309888000, FixedTimespan(36000, 3600, Some(<<"A", "E", "D", "T">>))>>,
        <<320774400, FixedTimespan(36000, 0, Some(<<"A", "E", "S", "T">>))>>,
        <<341337600, FixedTimespan(36000, 3600, Some(<<"A", "E", "D", "T">>))>>,
        <<352224000, FixedTimespan(36000, 0, Some(<<"A", "E", "S", "T">>))>>,
        <<372787200, FixedTimespan(36000, 3600, Some(<<"A", "E", "D", "T">>))>>,
        <<386697600, FixedTimespan(36000, 0, Some(<<"A", "E", "S", "T">>))>>,
        <<404841600, FixedTimespan(36000, 3600, Some(<<"A", "E", "D", "T">>))>>,
        <<415728000, FixedTimespan(36000, 0, Some(<<"A", "E", "S", "T">>))>>,
        <<436291200, FixedTimespan(36000, 3600, Some(<<"A", "E", "D", "T">>))>>,
        <<447177600, FixedTimespan(36000, 0, Some(<<"A", "E", "S", "T">>))>>,
        <<467740800, FixedTimespan(36000, 3600, Some(<<"A", "E", "D", "T">>))>>,
        <<478627200, FixedTimespan(36000, 0, Some(<<"A", "E", "S", "T">>))>>,
        <<499190400, FixedTimespan(36000, 3600, Some(<<"A", "E", "D", "T">>))>>,
        <<511286400, FixedTimespan(36000, 0, Some(<<"A", "E", "S", "T">>))>>,
        <<530035200, FixedTimespan(36000, 3600, Some(<<"A", "E", "D", "T">>))>>,
        <<542736000, FixedTimespan(36000, 0, Some(<<"A", "E", "S", "T">>))>>,
        <<562089600, FixedTimespan(36000, 3600, Some(<<"A", "E", "D", "T">>))>>,
        <<574790400, FixedTimespan(36000, 0, Some(<<"A", "E", "S", "T">>))>>,
        <<594144000, FixedTimespan(36000, 3600, Some(<<"A", "E", "D", "T">>))>>,
        <<606240000, FixedTimespan(36000, 0, Some(<<"A", "E", "S", "T">>))>>,
        <<625593600, FixedTimespan(36000, 3600, Some(<<"A", "E", "D", "T">>))>>,
        <<636480000, FixedTimespan(36000, 0, Some(<<"A", "E", "S", "T">>))>>,
        <<657043200, FixedTimespan(36000, 3600, Some(<<"A", "E", "D", "T">>))>>,
        <<667929600, FixedTimespan(36000, 0, Some(<<"A", "E", "S", "T">>))>>,
        <<688492800, FixedTimespan(36000, 3600, Some(<<"A", "E", "D", "T">>))>>,
        <<699379200, FixedTimespan(36000, 0, Some(<<"A", "E", "S", "T">>))>>,
        <<719942400, FixedTimespan(36000, 3600, Some(<<"A", "E", "D", "T">>))>>,
        <<731433600, FixedTimespan(36000, 0, Some(<<"A", "E", "S", "T">>))>>,
        <<751996800, FixedTimespan(36000, 3600, Some(<<"A", "E", "D", "T">>))>>,
        <<762883200, FixedTimespan(36000, 0, Some(<<"A", "E", "S", "T">>))>>,
        <<783446400, FixedTimespan(36000, 3600, Some(<<"A", "E", "D", "T">>))>>,
        <<794332800, FixedTimespan(36000, 0, Some(<<"A", "E", "S", "T">>))>>,
        <<814896000, FixedTimespan(36000, 3600, Some(<<"A", "E", "D", "T">>))>>,
        <<828201600, FixedTimespan(36000, 0, Some(<<"A", "E", "S", "T">>))>>,
        <<846345600, FixedTimespan(36000, 3600, Some(<<"A", "E", "D", "T">>))>>,
        <<859651200, FixedTimespan(36000, 0, Some(<<"A", "E", "S", "T">>))>>,
        <<877795200, FixedTimespan(36000, 3600, Some(<<"A", "E", "D", "T">>))>>,
        <<891100800, FixedTimespan(36000, 0, Some(<<"A", "E", "S", "T">>))>>,
        <<909244800, FixedTimespan(36000, 3600, Some(<<"A", "E", "D", "T">>))>>,
        <<922550400, FixedTimespan(36000, 0, Some(<<"A", "E", "S", "T">>))>>,
        <<941299200, FixedTimespan(36000, 3600, Some(<<"A", "E", "D", "T">>))>>,
        <<954000000, FixedTimespan(36000, 0, Some(<<"A", "E", "S", "T">>))>>,
        <<967305600, FixedTimespan(36000, 3600, Some(<<"A", "E", "D", "T">>))>>,
        <<985449600, FixedTimespan(36000, 0, Some(<<"A", "E", "S", "T">>))>>,
        <<1004198400, FixedTimespan(36000, 3600, Some(<<"A", "E", "D", "T">>))>>,
        <<1017504000, FixedTimespan(36000, 0, Some(<<"A", "E", "S", "T">>))>>,
        <<1035648000, FixedTimespan(36000, 3600, Some(<<"A", "E", "D", "T">>))>>,
        <<1048953600, FixedTimespan(36000, 0, Some(<<"A", "E", "S", "T">>))>>,
        <<1067097600, FixedTimespan(36000, 3600, Some(<<"A", "E", "D", "T">>))>>,
        <<1080403200, FixedTimespan(36000, 0, Some(<<"A", "E", "S", "T">>))>>,
        <<1099152000, FixedTimespan(36000, 3600, Some(<<"A", "E", "D", "T">>))>>,
        <<1111852800, FixedTimespan(36000, 0, Some(<<"A", "E", "S", "T">>))>>,
        <<1130601600, FixedTimespan(36000, 3600, Some(<<"A", "E", "D", "T">>))>>,
        <<1143907200, FixedTimespan(36000, 0, Some(<<"A", "E", "S", "T">>))>>,
        <<1162051200, FixedTimespan(36000, 3600, Some(<<"A", "E", "D", "T">>))>>,
        <<1174752000, FixedTimespan(36000, 0, Some(<<"A", "E", "S", "T">>))>>,
        <<1193500800, FixedTimespan(36000, 3600, Some(<<"A", "E", "D", "T">>))>>,
        <<1207411200, FixedTimespan(36000, 0, Some(<<"A", "E", "S", "T">>))>>,
        <<1223136000, FixedTimespan(36000, 3600, Some(<<"A", "E", "D", "T">>))>>,
        <<1238860800, FixedTimespan(36000, 0, Some(<<"A", "E", "S", "T">>))>>,
        <<1254585600, FixedTimespan(36000, 3600, Some(<<"A", "E", "D", "T">>))>>,
        <<1270310400, FixedTimespan(36000, 0, Some(<<"A", "E", "S", "T">>))>>,
        <<1286035200, FixedTimespan(36000, 3600, Some(<<"A", "E", "D", "T">>))>>,
        <<1301760000, FixedTimespan(36000, 0, Some(<<"A", "E", "S", "T">>))>>,
        <<1317484800, FixedTimespan(36000, 3600, Some(<<"A", "E", "D", "T">>))>>,
        <<1333209600, FixedTimespan(36000, 0, Some(<<"A", "E", "S", "T">>))>>,
        <<1349539200, FixedTimespan(36000, 3600, Some(<<"A", "E", "D", "T">>))>>,
        <<1365264000, FixedTimespan(36000, 0, Some(<<"A", "E", "S", "T">>))>>,
        <<1380988800, FixedTimespan(36000, 3600, Some(<<"A", "E", "D", "T">>))>>,
        <<1396713600, FixedTimespan(36000, 0, Some(<<"A", "E", "S", "T">>))>>,
        <<1412438400, FixedTimespan(36000, 3600, Some(<<"A", "E", "D", "T">>))>>,
        <<1428163200, FixedTimespan(36000, 0, Some(<<"A", "E", "S", "T">>))>>,
        <<1443888000, FixedTimespan(36000, 3600, Some(<<"A", "E", "D", "T">>))>>,
        <<1459612800, FixedTimespan(36000, 0, Some(<<"A", "E", "S", "T">>))>>,
        <<1475337600, FixedTimespan(36000, 3600, Some(<<"A", "E", "D", "T">>))>>,
        <<1491062400, FixedTimespan(36000, 0, Some(<<"A", "E", "S", "T">>))>>,
        <<1506787200, FixedTimespan(36000, 3600, Some(<<"A", "E", "D", "T">>))>>,
        <<1522512000, FixedTimespan(36000, 0, Some(<<"A", "E", "S", "T">>))>>,
        <<1538841600, FixedTimespan(36000, 3600, Some(<<"A", "E", "D", "T">>))>>,
        <<1554566400, FixedTimespan(36000, 0, Some(<<"A", "E", "S", "T">>))>>,
        <<1570291200, FixedTimespan(36000, 3600, Some(<<"A", "E", "D", "T">>))>>,
        <<1586016000, FixedTimespan(36000, 0, Some(<<"A", "E", "S", "T">>))>>,
        <<1601740800, FixedTimespan(36000, 3600, Some(<<"A", "E", "D", "T">>))>>,
        <<1617465600, FixedTimespan(36000, 0, Some(<<"A", "E", "S", "T">>))>>,
        <<1633190400, FixedTimespan(36000, 3600, Some(<<"A", "E", "D", "T">>))>>,
        <<1648915200, FixedTimespan(36000, 0, Some(<<"A", "E", "S", "T">>))>>,
        <<1664640000, FixedTimespan(36000, 3600, Some(<<"A", "E", "D", "T">>))>>,
        <<1680364800, FixedTimespan(36000, 0, Some(<<"A", "E", "S", "T">>))>>,
        <<1696089600, FixedTimespan(36000, 3600, Some(<<"A", "E", "D", "T">>))>>,
        <<1712419200, FixedTimespan(36000, 0, Some(<<"A", "E", "S", "T">>))>>,
        <<1728144000, FixedTimespan(36000, 3600, Some(<<"A", "E", "D", "T">>))>>,
        <<1743868800, FixedTimespan(36000, 0, Some(<<"A", "E", "S", "T">>))>>,
        <<1759593600, FixedTimespan(36000, 3600, Some(<<"A", "E", "D", "T">>))>>,
        <<1775318400, FixedTimespan(36000, 0, Some(<<"A", "E", "S", "T">>))>>,
        <<1791043200, FixedTimespan(36000, 3600, Some(<<"A", "E", "D", "T">>))>>,
        <<1806768000, FixedTimespan(36000, 0, Some(<<"A", "E", "S", "T">>))>>,
        <<1822492800, FixedTimespan(36000, 3600, Some(<<"A", "E", "D", "T">>))>>,
        <<1838217600, FixedTimespan(36000, 0, Some(<<"A", "E", "S", "T">>))>>,
        <<1853942400, FixedTimespan(36000, 3600, Some(<<"A", "E", "D", "T">>))>>,
        <<1869667200, FixedTimespan(36000, 0, Some(<<"A", "E", "S", "T">>))>>,
        <<1885996800, FixedTimespan(36000, 3600, Some(<<"A", "E", "D", "T">>))>>,
        <<1901721600, FixedTimespan(36000, 0, Some(<<"A", "E", "S", "T">>))>>,
        <<1917446400, FixedTimespan(36000, 3600, Some(<<"A", "E", "D", "T">>))>>,
        <<1933171200, FixedTimespan(36000, 0, Some(<<"A", "E", "S", "T">>))>>,
        <<1948896000, FixedTimespan(36000, 3600, Some(<<"A", "E", "D", "T">>))>>,
        <<1964620800, FixedTimespan(36000, 0, Some(<<"A", "E", "S", "T">>))>>,
        <<1980345600, FixedTimespan(36000, 3600, Some(<<"A", "E", "D", "T">>))>>,
        <<1996070400, FixedTimespan(36000, 0, Some(<<"A", "E", "S", "T">>))>>,
        <<2011795200, FixedTimespan(36000, 3600, Some(<<"A", "E", "D", "T">>))>>,
        <<2027520000, FixedTimespan(36000, 0, Some(<<"A", "E", "S", "T">>))>>,
        <<2043244800, FixedTimespan(36000, 3600, Some(<<"A", "E", "D", "T">>))>>,
        <<2058969600, FixedTimespan(36000, 0, Some(<<"A", "E", "S", "T">>))>>,
        <<2075299200, FixedTimespan(36000, 3600, Some(<<"A", "E", "D", "T">>))>>,
        <<2091024000, FixedTimespan(36000, 0, Some(<<"A", "E", "S", "T">>))>>,
        <<2106748800, FixedTimespan(36000, 3600, Some(<<"A", "E", "D", "T">>))>>,
        <<2122473600, FixedTimespan(36000, 0, Some(<<"A", "E", "S", "T">>))>>,
        <<2138198400, FixedTimespan(36000, 3600, Some(<<"A", "E", "D", "T">>))>> >>]

\* UTC: the span in force at second -2^31 and the transitions after it.
Timespans_UTC ==
    [first |-> FixedTimespan(0, 0, Some(<<"U", "T", "C">>)),
     rest |-> <<>>]

\* Tz::timespans().
timespans(tz) ==
    CASE tz = "America__New_York" -> Timespans_America__New_York
      [] tz = "America__Los_Angeles" -> Timespans_America__Los_Angeles
      [] tz = "America__Sao_Paulo" -> Timespans_America__Sao_Paulo
      [] tz = "Europe__London" -> Timespans_Europe__London
      [] tz = "Europe__Paris" -> Timespans_Europe__Paris
      [] tz = "Africa__Kampala" -> Timespans_Africa__Kampala
      [] tz = "Asia__Kolkata" -> Timespans_Asia__Kolkata
      [] tz = "Asia__Kathmandu" -> Timespans_Asia__Kathmandu
      [] tz = "Australia__Sydney" -> Timespans_Australia__Sydney
      [] tz = "UTC" -> Timespans_UTC

\* FixedTimespanSet::len, ::get and ::utc_span.
spans_len(ts) == 1 + Len(ts.rest)
spans_get(ts, i) == IF i = 0 THEN ts.first ELSE ts.rest[i][2]
utc_span(ts, i) ==
    [begin |-> IF i = 0 THEN None ELSE Some(ts.rest[i][1]),
     end |-> IF i = Len(ts.rest) THEN None ELSE Some(ts.rest[i + 1][1])]

\* Span::cmp: where the span lies relative to the timestamp x.
span_cmp(span, x) ==
    IF IsSome(span.begin) /\ Unwrap(span.begin) > x THEN "Greater"
    ELSE IF IsSome(span.end) /\ Unwrap(span.end) <= x THEN "Less"
    ELSE "Equal"

\* binary_search(start, end, f) with f = |i| utc_span(i).cmp(x).
RECURSIVE binary_search(_, _, _, _)
binary_search(start, end, ts, x) ==
    LET mid == start + ((end - start) \div 2) IN
    IF mid = end THEN Err(mid)
    ELSE LET o == span_cmp(utc_span(ts, mid), x) IN
         IF o = "Less" THEN binary_search(mid + 1, end, ts, x)
         ELSE IF o = "Greater" THEN binary_search(start, mid, ts, x)
         ELSE Ok(mid)

\* TimeZone::offset_from_utc_datetime for Tz: the TzOffset in force.
offset_from_utc_datetime(tz, utc) ==
    LET ts == timespans(tz)
        index == binary_search(0, spans_len(ts), ts, utc.secs).val
    IN [tz |-> tz, offset |-> spans_get(ts, index)]

\* Offset::fix().local_minus_utc(): seconds east of UTC.
local_minus_utc(off) == off.offset.utc_offset + off.offset.dst_offset

\* OffsetName::abbreviation().
abbreviation(off) == off.offset.name

\* str::ends_with on character sequences.
ends_with(s, suffix) ==
    /\ Len(s) >= Len(suffix)
    /\ SubSeq(s, Len(s) - Len(suffix) + 1, Len(s)) = suffix

\* DateTime<Tz>: the UTC datetime and the offset of the zone at it.
DateTime(utc, off) == [datetime |-> utc, offset |-> off]

\* TimeZone::from_utc_datetime and DateTime::with_timezone.
from_utc_datetime(tz, utc) == DateTime(utc, offset_from_utc_datetime(tz, utc))
with_timezone(dt, tz) == from_utc_datetime(tz, dt.datetime)

\* DateTime::naive_local(): the wall-clock reading, as seconds and nanoseconds.
naive_local(dt) ==
    [secs |-> dt.datetime.secs + local_minus_utc(dt.offset),
     nsecs |-> dt.datetime.nsecs]

\* Duration::seconds.
Duration_seconds(s) == [secs |-> s, nanos |-> 0]

\* An f64 quotient a / b (b > 0) as the fraction in lowest terms.
RECURSIVE gcd(_, _)
gcd(a, b) == IF b = 0 THEN a ELSE gcd(b, a % b)
Abs(a) == IF a < 0 THEN -a ELSE a
f64_div(a, b) ==
    LET g == gcd(Abs(a), b) IN [num |-> a \div g, den |-> b \div g]

(***************************************************************************)
(* The system clock.                                                       *)
(***************************************************************************)
Instant(secs, nsecs) == [secs |-> secs, nsecs |-> nsecs]

\* std::time::SystemTime: whole days from 1970-01-01 (negative before it),
\* the second of the day and the nanosecond of the second.
SystemTime(days, secs, nsecs) == [days |-> days, secs |-> secs, nsecs |-> nsecs]

\* The readings the clock passes through, in order: one second before the
\* epoch (a clock not yet set), the last second of EST in New York of March
\* 2024 (read twice), the first second of EDT, a summer noon (BST in
\* London), the first second of EST again, and later days.
ClockReadings ==
    << SystemTime(-1, 86399, 0),
       SystemTime(19792, 25199, 0),
       SystemTime(19792, 25199, 500000000),
       SystemTime(19792, 25200, 0),
       SystemTime(19905, 43200, 0),
       SystemTime(20030, 21600, 0),
       SystemTime(20031, 54000, 0),
       SystemTime(20103, 43200, 0),
       SystemTime(20635, 43200, 0) >>

\* A clock set past the last date chrono represents (262142-12-31).
BeyondChrono == SystemTime(95026237, 0, 0)

LastReading == IF MaxTick + 1 < Len(ClockReadings) THEN MaxTick + 1 ELSE Len(ClockReadings)
SharedLastReading ==
    IF MaxSharedTick + 1 < Len(ClockReadings) THEN MaxSharedTick + 1 ELSE Len(ClockReadings)
ClockIndex(t) == CHOOSE i \in 1..Len(ClockReadings) : ClockReadings[i] = t

\* How a call ends: it returns a value or it panics.
Returned(v) == [panicked |-> FALSE, val |-> v]
Panicked(msg) == [panicked |-> TRUE, val |-> msg]

\* SystemTime::duration_since(UNIX_EPOCH).
duration_since_epoch(clock) ==
    IF clock.days < 0 THEN Err("SystemTimeError") ELSE Ok(clock)

\* DateTime::from_timestamp(secs, nsecs): None past chrono's last date.
UtcOffset == [tz |-> "Utc", offset |-> FixedTimespan(0, 0, Some(<<"U", "T", "C">>))]
from_timestamp(d) ==
    IF d.days > 95026236 THEN None
    ELSE Some(DateTime(Instant(d.days * 86400 + d.secs, d.nsecs), UtcOffset))

\* Utc::now(): the clock's instant as a DateTime<Utc>; panics when the
\* clock is before the epoch (expect) or past chrono's range (unwrap).
Utc_now(clock) ==
    LET d == duration_since_epoch(clock) IN
    IF ~d.ok THEN Panicked("system time before Unix epoch")
    ELSE IF from_timestamp(d.val) = None
         THEN Panicked("called Option::unwrap() on a None value")
         ELSE Returned(Unwrap(from_timestamp(d.val)))

(***************************************************************************)
(* impl TimeZoneConverter.  self is [source_tz, target_tz]; the methods    *)
(* that read the clock take the DateTime<Utc> that Utc::now() returned to  *)
(* them (they do not run when Utc::now() panicked).                        *)
(***************************************************************************)
TimeZoneConverter(source_tz, target_tz) ==
    [source_tz |-> source_tz, target_tz |-> target_tz]

\* Variant of new: the target identifier is parsed before the source.
new_target_first(source, target) ==
    LET t == from_str(target) IN
    IF ~t.ok THEN Err(InvalidTimeZone(target))
    ELSE LET s == from_str(source) IN
         IF ~s.ok THEN Err(InvalidTimeZone(source))
         ELSE Ok(TimeZoneConverter(s.val, t.val))

new(source, target) ==
    LET s == from_str(source) IN
    IF ~s.ok THEN Err(InvalidTimeZone(source))
    ELSE LET t == from_str(target) IN
         IF ~t.ok THEN Err(InvalidTimeZone(target))
         ELSE Ok(TimeZoneConverter(s.val, t.val))

\* Variant of convert: re-expresses the datetime in the source zone.
convert_to_source(self, datetime) == Ok(with_timezone(datetime, self.source_tz))

\* Variant of convert: takes the wall-clock reading of the input for the UTC
\* datetime of the result.
convert_local_as_utc(self, datetime) ==
    Ok(from_utc_datetime(self.target_tz, naive_local(datetime)))

convert(self, datetime) == Ok(with_timezone(datetime, self.target_tz))

\* Variant of get_current_time_source: expresses the instant in the target zone.
get_current_time_source_in_target(self, utc_now) ==
    Ok(with_timezone(utc_now, self.target_tz))

get_current_time_source(self, utc_now) == Ok(with_timezone(utc_now, self.source_tz))

get_current_time_target(self, utc_now) == Ok(with_timezone(utc_now, self.target_tz))

TimeZoneInfo(nm, offset, is_dst) == [name |-> nm, offset |-> offset, is_dst |-> is_dst]

\* Variant of get_timezone_info: is_dst from the span's daylight-saving offset.
get_timezone_info_by_dst_offset(self, utc_now) ==
    LET offset == with_timezone(utc_now, self.source_tz).offset IN
    Ok(TimeZoneInfo(name(self.source_tz), Duration_seconds(local_minus_utc(offset)),
                    offset.offset.dst_offset # 0))

\* Variant of get_timezone_info: the clock reading is rounded to the nearest
\* second before the offset is looked up.
get_timezone_info_rounded(self, utc_now) ==
    LET secs == utc_now.datetime.secs + (IF utc_now.datetime.nsecs >= 500000000 THEN 1 ELSE 0)
        offset == offset_from_utc_datetime(self.source_tz, Instant(secs, 0))
    IN Ok(TimeZoneInfo(name(self.source_tz), Duration_seconds(local_minus_utc(offset)),
                       IF IsSome(abbreviation(offset))
                       THEN ends_with(Unwrap(abbreviation(offset)), <<"D", "T">>)
                       ELSE FALSE))

get_timezone_info(self, utc_now) ==
    LET now_src == with_timezone(utc_now, self.source_tz)
        offset == now_src.offset
        total_offset_seconds == local_minus_utc(offset)
        is_dst == IF IsSome(abbreviation(offset))
                  THEN ends_with(Unwrap(abbreviation(offset)), <<"D", "T">>)
                  ELSE FALSE
    IN Ok(TimeZoneInfo(name(self.source_tz), Duration_seconds(total_offset_seconds), is_dst))

\* Variant of get_time_difference: target offset minus source offset.
get_time_difference_swapped(self, utc_now) ==
    LET source_offset == local_minus_utc(with_timezone(utc_now, self.source_tz).offset)
        target_offset == local_minus_utc(with_timezone(utc_now, self.target_tz).offset)
    IN Ok(f64_div(target_offset - source_offset, 3600))

\* Variant of get_time_difference: the magnitude of the difference.
get_time_difference_abs(self, utc_now) ==
    LET source_offset == local_minus_utc(with_timezone(utc_now, self.source_tz).offset)
        target_offset == local_minus_utc(with_timezone(utc_now, self.target_tz).offset)
    IN Ok(f64_div(Abs(source_offset - target_offset), 3600))

get_time_difference(self, utc_now) ==
    LET source_time == with_timezone(utc_now, self.source_tz)
        target_time == with_timezone(utc_now, self.target_tz)
        source_offset == local_minus_utc(source_time.offset)
        target_offset == local_minus_utc(target_time.offset)
    IN Ok(f64_div(source_offset - target_offset, 3600))

(***************************************************************************)
(* Callers and the inputs they pass.                                       *)
(***************************************************************************)
Callers == 1..NumCallers

\* Identifiers handed to new: those of the excerpt and some of no database.
Names == {name(tz) : tz \in TzVariants} \cup NotInDatabase

\* Datetimes handed to convert: an instant tagged with a zone of its own.
\* The instants: war time in New York (1942), the last half second of EST
\* and the first second of EDT in March 2024, tests::NewYorktoKampala's
\* 2024-11-04 10:00 in New York, and a summer noon of 2026.
InputInstants ==
    {Instant(-880000000, 0), Instant(1710053999, 500000000), Instant(1710054000, 0),
     Instant(1730732400, 0), Instant(1782907200, 0)}
InputZones == {"America__New_York", "Asia__Kolkata"}
Inputs == {from_utc_datetime(tz, utc) : tz \in InputZones, utc \in InputInstants}

Idle == [pc |-> "idle", op |-> "none", now |-> None, datetime |-> None, ret |-> None]

\* Variant of clock_read: the clock is read again where the value is used.
clock_reread(c) == Utc_now(now).val

\* The value bound by `let now = Utc::now()` (or the temporary Utc::now())
\* in the call caller c is running.
clock_read(c) == Unwrap(call[c].now)

Enter(c, op, reading, datetime) ==
    /\ IsSome(conv)
    /\ call[c].pc = "idle"
    /\ call' = [call EXCEPT ![c] =
                   [pc |-> "running", op |-> op, now |-> reading,
                    datetime |-> datetime, ret |-> None]]
    /\ UNCHANGED <<conv, newRes, now, pair, ppc>>

\* Entry of a method whose first step is Utc::now(): the call goes on with
\* the value read, or the panic of Utc::now() unwinds the caller.
EnterNow(c, op) ==
    /\ IsSome(conv)
    /\ call[c].pc = "idle"
    /\ call' = [call EXCEPT ![c] =
                   IF Utc_now(now).panicked
                   THEN [pc |-> "panicked", op |-> op, now |-> None,
                         datetime |-> None, ret |-> None]
                   ELSE [pc |-> "running", op |-> op, now |-> Some(Utc_now(now).val),
                         datetime |-> None, ret |-> None]]
    /\ UNCHANGED <<conv, newRes, now, pair, ppc>>

Leave(c, op, ret) ==
    /\ call[c].pc = "running"
    /\ call[c].op = op
    /\ call' = [call EXCEPT ![c].pc = "idle", ![c].ret = Some(ret)]
    /\ UNCHANGED <<conv, newRes, now, pair, ppc>>

(***************************************************************************)
(* Actions.                                                                *)
(***************************************************************************)
\* The clock starts unset (before the epoch) or set far ahead.
Init ==
    /\ conv = None
    /\ newRes = None
    /\ now \in {ClockReadings[1], BeyondChrono}
    /\ call = [c \in Callers |-> Idle]
    /\ pair = None
    /\ ppc = "start"

\* TimeZoneConverter::new(source, target); the caller keeps the converter
\* it gets and shares it.
New(source, target) ==
    /\ conv = None
    /\ LET ret == new(source, target) IN
       /\ newRes' = Some([source |-> source, target |-> target, ret |-> ret])
       /\ conv' = IF ret.ok THEN Some(ret.val) ELSE None
    /\ UNCHANGED <<now, call, pair, ppc>>

\* converter.convert(datetime)
ConvertCall(c, datetime) == Enter(c, "convert", None, Some(datetime))
ConvertReturn(c) ==
    Leave(c, "convert", convert(Unwrap(conv), Unwrap(call[c].datetime)))

\* converter.get_current_time_source()
SourceNow(c) == EnterNow(c, "get_current_time_source")
SourceReturn(c) ==
    Leave(c, "get_current_time_source",
          get_current_time_source(Unwrap(conv), clock_read(c)))

\* converter.get_current_time_target()
TargetNow(c) == EnterNow(c, "get_current_time_target")
TargetReturn(c) ==
    Leave(c, "get_current_time_target",
          get_current_time_target(Unwrap(conv), clock_read(c)))

\* converter.get_timezone_info()
InfoNow(c) == EnterNow(c, "get_timezone_info")
InfoReturn(c) ==
    Leave(c, "get_timezone_info", get_timezone_info(Unwrap(conv), clock_read(c)))

\* converter.get_time_difference()
DifferenceNow(c) == EnterNow(c, "get_time_difference")
DifferenceReturn(c) ==
    Leave(c, "get_time_difference", get_time_difference(Unwrap(conv), clock_read(c)))

\* The system clock advances (or is set) to its next reading.
Tick ==
    /\ \E i \in 1..Len(ClockReadings) : ClockReadings[i] = now
    /\ ClockIndex(now) < LastReading
    /\ now' = ClockReadings[ClockIndex(now) + 1]
    /\ UNCHANGED <<conv, newRes, call, pair, ppc>>

\* One caller: construction, then the five methods in any order, while the
\* clock runs.
Next ==
    \/ \E source \in Names, target \in Names : New(source, target)
    \/ \E datetime \in Inputs : ConvertCall(1, datetime)
    \/ ConvertReturn(1)
    \/ SourceNow(1)
    \/ SourceReturn(1)
    \/ TargetNow(1)
    \/ TargetReturn(1)
    \/ InfoNow(1)
    \/ InfoReturn(1)
    \/ DifferenceNow(1)
    \/ DifferenceReturn(1)
    \/ Tick

Spec == Init /\ [][Next]_vars

(***************************************************************************)
(* Several callers on one converter (&self shared between threads).        *)
(***************************************************************************)
\* The converters of the crate's tests and of its documentation.
SharedConverters ==
    {new("America/New_York", "Africa/Kampala").val,
     new("America/New_York", "Europe/London").val}

\* What a caller passes to convert: the datetime of tests::NewYorktoKampala
\* or, as in the crate-level example, the current_time that its own call of
\* get_current_time_source returned.
SharedInputs(c) ==
    {from_utc_datetime("America__New_York", Instant(1730732400, 0))}
    \cup (IF call[c].op = "get_current_time_source" /\ IsSome(call[c].ret)
          THEN {Unwrap(call[c].ret).val}
          ELSE {})

\* The callers start with the clock in the last second of EST, or set beyond
\* what chrono can represent.
InitShared ==
    /\ conv \in {Some(k) : k \in SharedConverters}
    /\ newRes = None
    /\ now \in {ClockReadings[2], BeyondChrono}
    /\ call = [c \in Callers |-> Idle]
    /\ pair = None
    /\ ppc = "start"

\* The system clock advances while the callers run.
TickShared ==
    /\ \E i \in 1..Len(ClockReadings) : ClockReadings[i] = now
    /\ ClockIndex(now) < SharedLastReading
    /\ now' = ClockReadings[ClockIndex(now) + 1]
    /\ UNCHANGED <<conv, newRes, call, pair, ppc>>

NextShared ==
    \/ \E c \in Callers : \E datetime \in SharedInputs(c) : ConvertCall(c, datetime)
    \/ \E c \in Callers : ConvertReturn(c)
    \/ \E c \in Callers : SourceNow(c)
    \/ \E c \in Callers : SourceReturn(c)
    \/ \E c \in Callers : TargetNow(c)
    \/ \E c \in Callers : TargetReturn(c)
    \/ \E c \in Callers : InfoNow(c)
    \/ \E c \in Callers : InfoReturn(c)
    \/ \E c \in Callers : DifferenceNow(c)
    \/ \E c \in Callers : DifferenceReturn(c)
    \/ TickShared

SpecShared == InitShared /\ [][NextShared]_vars

(***************************************************************************)
(* A program holding two converters with source and target swapped: it     *)
(* converts a datetime there and back, then asks both for the difference.  *)
(***************************************************************************)
PairInputs(tz) == {from_utc_datetime(tz, utc) : utc \in InputInstants}

\* let ab = new(a, b); let ba = new(b, a);
PairNew(a, b) ==
    /\ ppc = "start"
    /\ LET ab == new(a, b)
           ba == new(b, a)
       IN /\ pair' = Some([ab |-> ab, ba |-> ba, input |-> None,
                           there |-> None, back |-> None,
                           t_ab |-> None, d_ab |-> None,
                           t_ba |-> None, d_ba |-> None])
          /\ ppc' = IF ab.ok /\ ba.ok THEN "ready" ELSE "failed"
    /\ UNCHANGED <<conv, newRes, now, call>>

\* let there = ab.convert(input), for an input tagged with ab's source zone
PairThere(datetime) ==
    /\ ppc = "ready"
    /\ datetime \in PairInputs(Unwrap(pair).ab.val.source_tz)
    /\ pair' = Some([Unwrap(pair) EXCEPT
                        !.input = Some(datetime),
                        !.there = Some(convert(Unwrap(pair).ab.val, datetime))])
    /\ ppc' = "there"
    /\ UNCHANGED <<conv, newRes, now, call>>

\* let back = ba.convert(there)
PairBack ==
    /\ ppc = "there"
    /\ pair' = Some([Unwrap(pair) EXCEPT
                        !.back = Some(convert(Unwrap(pair).ba.val,
                                              Unwrap(Unwrap(pair).there).val))])
    /\ ppc' = "back"
    /\ UNCHANGED <<conv, newRes, now, call>>

\* let d_ab = ab.get_time_difference(): Utc::now(), then the difference
PairDifferenceAB ==
    /\ ppc = "back"
    /\ IF Utc_now(now).panicked
       THEN ppc' = "panicked" /\ pair' = pair
       ELSE /\ pair' = Some([Unwrap(pair) EXCEPT
                                !.t_ab = Some(Utc_now(now).val),
                                !.d_ab = Some(get_time_difference(Unwrap(pair).ab.val,
                                                                  Utc_now(now).val))])
            /\ ppc' = "diff"
    /\ UNCHANGED <<conv, newRes, now, call>>

\* let d_ba = ba.get_time_difference(): Utc::now(), then the difference
PairDifferenceBA ==
    /\ ppc = "diff"
    /\ IF Utc_now(now).panicked
       THEN ppc' = "panicked" /\ pair' = pair
       ELSE /\ pair' = Some([Unwrap(pair) EXCEPT
                                !.t_ba = Some(Utc_now(now).val),
                                !.d_ba = Some(get_time_difference(Unwrap(pair).ba.val,
                                                                  Utc_now(now).val))])
            /\ ppc' = "done"
    /\ UNCHANGED <<conv, newRes, now, call>>

NextPair ==
    \/ \E a \in Names, b \in Names : PairNew(a, b)
    \/ \E tz \in TzVariants : \E datetime \in PairInputs(tz) : PairThere(datetime)
    \/ PairBack
    \/ PairDifferenceAB
    \/ PairDifferenceBA
    \/ Tick

SpecPair == Init /\ [][NextPair]_vars

(***************************************************************************)
(* The properties.  The offset a zone has at an instant is stated here     *)
(* from the database directly: the span whose transition is at or before   *)
(* the instant while the next transition, if any, is after it; the first   *)
(* span when the instant precedes every transition.                        *)
(***************************************************************************)
SpanAt(tz, secs) ==
    LET ts == timespans(tz)
        n == Len(ts.rest)
        i == CHOOSE k \in 0..n :
                 /\ k = 0 \/ ts.rest[k][1] <= secs
                 /\ k = n \/ ts.rest[k + 1][1] > secs
    IN IF i = 0 THEN ts.first ELSE ts.rest[i][2]

OffsetSecondsAt(tz, secs) ==
    LET span == SpanAt(tz, secs) IN span.utc_offset + span.dst_offset

ValidNames ==
    {"America/New_York", "America/Los_Angeles", "America/Sao_Paulo",
     "Europe/London", "Europe/Paris", "Africa/Kampala", "Asia/Kolkata",
     "Asia/Kathmandu", "Australia/Sydney", "UTC"}

Negated(x) == [num |-> -x.num, den |-> x.den]

\* Caller c has completed a call of op; its record holds the result.
Done(c, op) == call[c].pc = "idle" /\ call[c].op = op /\ IsSome(call[c].ret)
Ret(c) == Unwrap(call[c].ret)
Self == Unwrap(conv)

\* The UTC instant that the Utc::now() of caller c's call returned.
Reading(c) == clock_read(c).datetime

\* C1: convert returns the input's UTC instant, in the converter's target
\* zone with that zone's offset at the instant; the result is the same for
\* any zone tag on the input and any source zone of the converter.
C1_ConvertPreservesInstant ==
    \A c \in Callers :
        Done(c, "convert") =>
            LET arg == Unwrap(call[c].datetime)
                off == OffsetSecondsAt(Self.target_tz, arg.datetime.secs)
            IN /\ Ret(c).ok
               /\ Ret(c).val.datetime = arg.datetime
               /\ Ret(c).val.offset.tz = Self.target_tz
               /\ local_minus_utc(Ret(c).val.offset) = off
               /\ naive_local(Ret(c).val) =
                      Instant(arg.datetime.secs + off, arg.datetime.nsecs)
               /\ \A tag \in TzVariants, src \in TzVariants :
                      convert(TimeZoneConverter(src, Self.target_tz),
                              from_utc_datetime(tag, arg.datetime)) = Ret(c)

\* A converter to New York has re-expressed, as EDT, an instant that came
\* tagged with a third zone.
C1_Witness ==
    \E c \in Callers :
        /\ Done(c, "convert")
        /\ Self.target_tz = "America__New_York"
        /\ Unwrap(call[c].datetime).offset.tz \notin {Self.source_tz, Self.target_tz}
        /\ local_minus_utc(Unwrap(call[c].datetime).offset) = 19800
        /\ local_minus_utc(Ret(c).val.offset) = -14400

\* C2: converting a datetime of zone A with a converter to B and the result
\* with a converter to A gives back the same UTC instant, in zone A, with
\* the same wall-clock reading as the original.
C2_RoundTrip ==
    ppc \in {"back", "diff", "done"} =>
        LET input == Unwrap(Unwrap(pair).input)
            back == Unwrap(Unwrap(pair).back)
        IN /\ back.ok
           /\ back.val.datetime = input.datetime
           /\ back.val.offset.tz = input.offset.tz
           /\ naive_local(back.val) = naive_local(input)
           /\ naive_local(back.val) =
                  Instant(input.datetime.secs
                              + OffsetSecondsAt(input.offset.tz, input.datetime.secs),
                          input.datetime.nsecs)

\* A New York datetime has gone to Kolkata, where the wall clock read
\* differently, and come back.
C2_Witness ==
    /\ ppc = "back"
    /\ Unwrap(pair).ab.val.source_tz = "America__New_York"
    /\ Unwrap(pair).ab.val.target_tz = "Asia__Kolkata"
    /\ naive_local(Unwrap(Unwrap(pair).there).val) # naive_local(Unwrap(Unwrap(pair).input))
    /\ Unwrap(Unwrap(pair).back).val.offset.tz = "America__New_York"

\* C3: new succeeds exactly when both identifiers are in the database, and
\* then yields the converter of the two zones; otherwise it yields
\* InvalidTimeZone with the source identifier if that one fails and else
\* with the target identifier, and no converter.
C3_NewValidates ==
    IsSome(newRes) =>
        LET source == Unwrap(newRes).source
            target == Unwrap(newRes).target
            ret == Unwrap(newRes).ret
        IN /\ ret.ok <=> (source \in ValidNames /\ target \in ValidNames)
           /\ ret.ok =>
                  /\ conv = Some(ret.val)
                  /\ name(ret.val.source_tz) = source
                  /\ name(ret.val.target_tz) = target
           /\ ~ret.ok =>
                  /\ conv = None
                  /\ ret.val = InvalidTimeZone(IF source \notin ValidNames
                                               THEN source ELSE target)

\* new was given two identifiers that are not in the database and reported
\* the source one.
C3_Witness ==
    /\ IsSome(newRes)
    /\ Unwrap(newRes).source = "Mars/Olympus"
    /\ Unwrap(newRes).target = "Not/AZone"
    /\ Unwrap(newRes).ret = Err(InvalidTimeZone("Mars/Olympus"))
    /\ conv = None

\* C4: only new fails, and only with InvalidTimeZone; every call of
\* convert, get_current_time_source, get_current_time_target,
\* get_timezone_info and get_time_difference, whatever the clock reads, ends
\* by returning Ok.
C4_QueriesNeverFail ==
    /\ \A c \in Callers :
           /\ call[c].pc # "panicked"
           /\ IsSome(call[c].ret) =>
                  /\ call[c].op \in {"convert", "get_current_time_source",
                                     "get_current_time_target", "get_timezone_info",
                                     "get_time_difference"}
                  /\ Ret(c).ok
    /\ (IsSome(newRes) /\ ~Unwrap(newRes).ret.ok) =>
           Unwrap(newRes).ret.val.kind = "InvalidTimeZone"

\* C5: get_time_difference returns (source offset - target offset) / 3600,
\* both offsets taken at the one clock reading of the call; the value is
\* positive exactly when the source zone's wall clock is ahead of the
\* target's at that reading.
C5_DifferenceIsOffsetDifference ==
    \A c \in Callers :
        Done(c, "get_time_difference") =>
            LET T == Reading(c)
                source_offset == OffsetSecondsAt(Self.source_tz, T.secs)
                target_offset == OffsetSecondsAt(Self.target_tz, T.secs)
            IN /\ Ret(c).ok
               /\ Ret(c).val.den \in {1, 2, 4}
               /\ Ret(c).val.num * 3600 = (source_offset - target_offset) * Ret(c).val.den
               /\ gcd(Abs(Ret(c).val.num), Ret(c).val.den) = 1
               /\ Ret(c).val.num > 0 <=> T.secs + source_offset > T.secs + target_offset

\* New York against Kolkata during EDT: -9.5 hours.
C5_Witness ==
    \E c \in Callers :
        /\ Done(c, "get_time_difference")
        /\ Self = TimeZoneConverter("America__New_York", "Asia__Kolkata")
        /\ Reading(c).secs >= 1710054000
        /\ Ret(c).val = [num |-> -19, den |-> 2]

\* C6: at one clock reading, the difference reported by the converter from
\* A to B is the negation of the one reported by the converter from B to A,
\* and is 0 when A and B are the same zone.
C6_DifferenceAntisymmetric ==
    (ppc = "done" /\ Unwrap(pair).t_ab = Unwrap(pair).t_ba) =>
        LET d_ab == Unwrap(Unwrap(pair).d_ab)
            d_ba == Unwrap(Unwrap(pair).d_ba)
        IN /\ d_ab.ok /\ d_ba.ok
           /\ d_ab.val = Negated(d_ba.val)
           /\ Unwrap(pair).ab.val.source_tz = Unwrap(pair).ab.val.target_tz =>
                  d_ab.val = [num |-> 0, den |-> 1]

\* Kolkata against New York and New York against Kolkata, both asked in the
\* first second of EDT: 9.5 and -9.5 hours.
C6_Witness ==
    /\ ppc = "done"
    /\ Unwrap(pair).t_ab = Unwrap(pair).t_ba
    /\ Unwrap(Unwrap(pair).t_ab).datetime = Instant(1710054000, 0)
    /\ Unwrap(pair).ab.val = TimeZoneConverter("Asia__Kolkata", "America__New_York")
    /\ Unwrap(pair).ba.val = TimeZoneConverter("America__New_York", "Asia__Kolkata")
    /\ Unwrap(Unwrap(pair).d_ab).val = [num |-> 19, den |-> 2]
    /\ Unwrap(Unwrap(pair).d_ba).val = [num |-> -19, den |-> 2]

\* C7: get_timezone_info reports is_dst exactly when the source zone's
\* abbreviation at the clock reading exists and its last two characters are
\* "D", "T"; so it is false for Africa/Kampala and UTC at every reading and
\* true for America/New_York while EDT is in force.
C7_DstFlagFromAbbreviation ==
    \A c \in Callers :
        Done(c, "get_timezone_info") =>
            LET T == Reading(c)
                abbr == SpanAt(Self.source_tz, T.secs).name
                endsDT == /\ abbr # None
                          /\ Len(abbr[1]) >= 2
                          /\ abbr[1][Len(abbr[1]) - 1] = "D"
                          /\ abbr[1][Len(abbr[1])] = "T"
            IN /\ Ret(c).ok
               /\ Ret(c).val.is_dst <=> endsDT
               /\ Self.source_tz \in {"Africa__Kampala", "UTC"} => ~Ret(c).val.is_dst
               /\ (/\ Self.source_tz = "America__New_York"
                   /\ T.secs >= 1710054000
                   /\ T.secs < 1730613600) => Ret(c).val.is_dst

\* New York on the first of July: is_dst is true.
C7_Witness ==
    \E c \in Callers :
        /\ Done(c, "get_timezone_info")
        /\ Self.source_tz = "America__New_York"
        /\ Reading(c) = Instant(1719835200, 0)
        /\ Ret(c).val.is_dst

\* C8: two completed calls of get_timezone_info on the converter whose clock
\* readings lie in the same second returned the same name, offset and
\* is_dst.
C8_InfoSameWithinSecond ==
    \A c1 \in Callers, c2 \in Callers :
        (/\ Done(c1, "get_timezone_info")
         /\ Done(c2, "get_timezone_info")
         /\ Reading(c1).secs = Reading(c2).secs) =>
            /\ Ret(c1).val.name = Ret(c2).val.name
            /\ Ret(c1).val.offset = Ret(c2).val.offset
            /\ Ret(c1).val.is_dst = Ret(c2).val.is_dst

\* Two callers read the clock half a second apart within the last second of
\* EST, and the clock has since crossed into EDT.
C8_Witness ==
    \E c1 \in Callers, c2 \in Callers :
        /\ Done(c1, "get_timezone_info")
        /\ Done(c2, "get_timezone_info")
        /\ Reading(c1) = Instant(1710053999, 0)
        /\ Reading(c2) = Instant(1710053999, 500000000)
        /\ Utc_now(now).val.datetime.secs >= 1710054000
        /\ ~Ret(c1).val.is_dst

\* What a call of op returns when it runs alone on converter self with
\* clock reading t and argument datetime.
Alone(op, self, t, datetime) ==
    CASE op = "convert" -> convert(self, Unwrap(datetime))
      [] op = "get_current_time_source" -> get_current_time_source(self, Unwrap(t))
      [] op = "get_current_time_target" -> get_current_time_target(self, Unwrap(t))
      [] op = "get_timezone_info" -> get_timezone_info(self, Unwrap(t))
      [] op = "get_time_difference" -> get_time_difference(self, Unwrap(t))

C9_Step ==
    /\ IsSome(conv) => conv' = conv
    /\ \A c \in Callers :
           (call[c].pc = "running" /\ call'[c].pc = "idle") =>
               /\ call'[c].op = call[c].op
               /\ call'[c].now = call[c].now
               /\ call'[c].datetime = call[c].datetime
               /\ call'[c].ret =
                      Some(Alone(call[c].op, Unwrap(conv), call[c].now, call[c].datetime))

\* C9: no step of any caller changes the converter, and every call returns
\* what it would have returned running alone at the clock reading it took,
\* however the callers and the clock interleave.
C9_ImmutableUnderConcurrency == [][C9_Step]_vars

\* One caller has its difference while another is still inside a call that
\* read the clock at a different instant, and the clock has moved since.
C9_Witness ==
    \E c1 \in Callers, c2 \in Callers :
        /\ Done(c1, "get_time_difference")
        /\ call[c2].pc = "running"
        /\ call[c2].op = "get_timezone_info"
        /\ clock_read(c2) # clock_read(c1)
        /\ Utc_now(now).val # clock_read(c1)
        /\ Utc_now(now).val # clock_read(c2)

\* C10: get_current_time_source returns the clock reading in the source
\* zone and get_current_time_target returns it in the target zone; taken at
\* one reading, the two are the same UTC instant and convert applied to the
\* source result equals the target result.
C10_CurrentTimes ==
    /\ \A c \in Callers :
           /\ Done(c, "get_current_time_source") =>
                  /\ Ret(c).ok
                  /\ Ret(c).val.datetime = Reading(c)
                  /\ Ret(c).val.offset.tz = Self.source_tz
                  /\ local_minus_utc(Ret(c).val.offset) =
                         OffsetSecondsAt(Self.source_tz, Reading(c).secs)
           /\ Done(c, "get_current_time_target") =>
                  /\ Ret(c).ok
                  /\ Ret(c).val.datetime = Reading(c)
                  /\ Ret(c).val.offset.tz = Self.target_tz
                  /\ local_minus_utc(Ret(c).val.offset) =
                         OffsetSecondsAt(Self.target_tz, Reading(c).secs)
    /\ \A c1 \in Callers, c2 \in Callers :
           (/\ Done(c1, "get_current_time_source")
            /\ Done(c2, "get_current_time_target")
            /\ clock_read(c1) = clock_read(c2)) =>
               /\ Ret(c1).val.datetime = Ret(c2).val.datetime
               /\ convert(Self, Ret(c1).val) = Ret(c2)

\* At the first second of EDT one caller holds the New York time and another
\* the London time, four hours apart on the wall clock.
C10_Witness ==
    \E c1 \in Callers, c2 \in Callers :
        /\ Done(c1, "get_current_time_source")
        /\ Done(c2, "get_current_time_target")
        /\ Reading(c1) = Instant(1710054000, 0)
        /\ Reading(c2) = Instant(1710054000, 0)
        /\ Self = TimeZoneConverter("America__New_York", "Europe__London")
        /\ naive_local(Ret(c2).val).secs - naive_local(Ret(c1).val).secs = 14400
====
